---- MODULE Spec2Model ----
(***************************************************************************)
(* Trace-correlation engine of claude_autotrace_hook.                      *)
(*                                                                         *)
(* One hook invocation (cc_tracer.main) loads the persisted SessionState   *)
(* of a session id, processes exactly one event, emits zero or more spans  *)
(* and saves (or deletes) the record.  An invocation is one atomic action  *)
(* of Spec.  The environment appends records to the main transcript and to *)
(* the subagents' transcripts between invocations.                         *)
(*                                                                         *)
(* Conventions.  An Optional value is a sequence of length <= 1: <<>> is   *)
(* None and <<x>> is x.  An absent string field is NoneStr.  uuid4() is a  *)
(* counter (nextId): every call returns a value never returned before.     *)
(* time.time_ns() and datetime.now() read the same clock `now`; every      *)
(* invocation reads one clock value and the clock advances between         *)
(* invocations.  A string whose characters matter (a prompt, a tool name)  *)
(* is held in the state by a short name; TextOf gives its characters, and  *)
(* the string operations of the code work on the characters.               *)
(***************************************************************************)
EXTENDS Integers, Sequences, FiniteSets, TLC

\* ----- bounds ------------------------------------------------------------
\* Number of steps explored: hook invocations plus transcript appends.
MaxTime == 4
\* The longest string truncate is applied to, and the largest max_length.
MaxValueLen == 80
MaxMaxLength == 52
\* The longest stream of content blocks a reasoning is extracted from.
MaxBlocks == 4

\* ----- input domains -----------------------------------------------------
NoneStr == "<none>"
NoTime == -1
Prompts == {"A", "B"}
ToolUseIds == {"t1"}
\* AgentIds are the subagents the hooks report; OtherAgentIds are agent ids
\* that only ever appear inside transcript records.
AgentIds == {"a1"}
OtherAgentIds == {"a2"}
Texts == {"A"}

\* The characters of the strings of the model.  Prompt "A" is a prompt of
\* 50 characters and prompt "B" one of 51, both with line breaks.
PromptA == [i \in 1..50 |-> IF i = 2 THEN "\n" ELSE "a"]
PromptB == [i \in 1..51 |-> IF i \in {3, 40} THEN "\n" ELSE "b"]
TextOf(str) ==
    CASE str = "A" -> PromptA
      [] str = "B" -> PromptB
      [] str = "(resumed session)" ->
             <<"(", "r", "e", "s", "u", "m", "e", "d", " ",
               "s", "e", "s", "s", "i", "o", "n", ")">>
      [] str = "Bash" -> <<"B", "a", "s", "h">>
      [] str = "general" -> <<"g", "e", "n", "e", "r", "a", "l">>
      [] str = NoneStr -> <<"N", "o", "n", "e">>

Some(x) == <<x>>
None == <<>>
EmptyMap == [x \in {} |-> 0]
Put(f, k, v) == [x \in (DOMAIN f) \cup {k} |-> IF x = k THEN v ELSE f[x]]
Drop(f, k) == [x \in (DOMAIN f) \ {k} |-> f[x]]

\* ----- models.py: StepParent, TranscriptState ----------------------------
AgentParent(agent_id) == [type |-> "agent", id |-> agent_id]
ToolParent(tool_use_id) == [type |-> "tool", id |-> tool_use_id]
TranscriptState(ap, tp) == [agent_parents |-> ap, tool_parents |-> tp]
EmptyTranscriptState == TranscriptState(EmptyMap, EmptyMap)

\* ----- models.py: ContentBlock, TranscriptEntry --------------------------
TextBlock(m) == [type |-> "text", id |-> NoneStr, text |-> m, thinking |-> NoneStr]
ToolUseBlock(t) == [type |-> "tool_use", id |-> t, text |-> NoneStr, thinking |-> NoneStr]
ThinkingBlock(th) == [type |-> "thinking", id |-> NoneStr, text |-> NoneStr, thinking |-> th]
AssistantEntry(agent, ts, content) ==
    [type |-> "assistant", agentId |-> agent, parentToolUseID |-> NoneStr,
     dataAgentId |-> NoneStr, timestamp |-> ts, content |-> content]
ProgressEntry(tool, agent) ==
    [type |-> "progress", agentId |-> NoneStr, parentToolUseID |-> tool,
     dataAgentId |-> agent, timestamp |-> NoTime, content |-> <<>>]

\* ----- transcript.py: truncate -------------------------------------------
\* value[:k]: the first k characters, or all but the last -k when k < 0
Slice(value, k) ==
    IF k >= 0
    THEN SubSeq(value, 1, IF k < Len(value) THEN k ELSE Len(value))
    ELSE SubSeq(value, 1, IF Len(value) + k > 0 THEN Len(value) + k ELSE 0)

TruncatedSuffix == <<".", ".", ".", "[", "t", "r", "u", "n", "c", "a", "t", "e", "d", "]">>

truncate(value, max_length) ==
    IF Len(value) > max_length
    THEN Slice(value, max_length - 15) \o TruncatedSuffix
    ELSE value

\* ----- transcript.py: _load_transcript -----------------------------------
\* A transcript file is None (not found, permission denied, bad encoding)
\* or the sequence of its records; an unreadable file loads as None.
_load_transcript(file) == file

\* ----- transcript.py: update_transcript ----------------------------------
RECURSIVE ScanContent(_, _, _)
\* mutant: a later record overwrites the cached parent
RECURSIVE ScanContent_overwrite(_, _, _)
ScanContent_overwrite(tool_parents, agent_id, content) ==
    IF content = <<>> THEN tool_parents
    ELSE LET c == Head(content)
             tp == IF c.type = "tool_use" /\ c.id # NoneStr
                   THEN Put(tool_parents, c.id, AgentParent(agent_id))
                   ELSE tool_parents
         IN ScanContent_overwrite(tp, agent_id, Tail(content))
ScanContent(tool_parents, agent_id, content) ==
    IF content = <<>> THEN tool_parents
    ELSE LET c == Head(content)
             tp == IF c.type = "tool_use" /\ c.id # NoneStr /\ c.id \notin DOMAIN tool_parents
                   THEN Put(tool_parents, c.id, AgentParent(agent_id))
                   ELSE tool_parents
         IN ScanContent(tp, agent_id, Tail(content))

\* mutant: a progress record caches the subagent itself as its parent
ScanEntry_self(agent_state, entry) ==
    IF entry.type = "progress"
    THEN IF /\ entry.parentToolUseID # NoneStr
            /\ entry.dataAgentId # NoneStr
            /\ entry.dataAgentId \notin DOMAIN agent_state.agent_parents
         THEN [agent_state EXCEPT !.agent_parents =
                  Put(@, entry.dataAgentId, AgentParent(entry.dataAgentId))]
         ELSE agent_state
    ELSE IF entry.type = "assistant" /\ entry.agentId # NoneStr
    THEN [agent_state EXCEPT !.tool_parents = ScanContent(@, entry.agentId, entry.content)]
    ELSE agent_state
ScanEntry(agent_state, entry) ==
    IF entry.type = "progress"
    THEN IF /\ entry.parentToolUseID # NoneStr
            /\ entry.dataAgentId # NoneStr
            /\ entry.dataAgentId \notin DOMAIN agent_state.agent_parents
         THEN [agent_state EXCEPT !.agent_parents =
                  Put(@, entry.dataAgentId, ToolParent(entry.parentToolUseID))]
         ELSE agent_state
    ELSE IF entry.type = "assistant" /\ entry.agentId # NoneStr
    THEN [agent_state EXCEPT !.tool_parents = ScanContent(@, entry.agentId, entry.content)]
    ELSE agent_state

RECURSIVE ScanEntries(_, _)
ScanEntries(agent_state, entries) ==
    IF entries = <<>> THEN agent_state
    ELSE ScanEntries(ScanEntry(agent_state, Head(entries)), Tail(entries))

update_transcript(agent_state, file) ==
    IF _load_transcript(file) = None THEN agent_state
    ELSE ScanEntries(agent_state, _load_transcript(file)[1])

\* ----- transcript.py: search_tool_parent_in_(subagent_)transcript --------
\* Result: the StepParent or None, the updated cache, and the number of
\* update_transcript calls (scans) performed.
MapGet(f, k) == IF k \in DOMAIN f THEN Some(f[k]) ELSE None

\* the lookup in the cache as the scan left it
LookupScanned(scanned, tool_use_id) ==
    [result |-> MapGet(scanned.tool_parents, tool_use_id), state |-> scanned, scans |-> 1]

\* mutant: the scan's findings are not kept in the cache
search_tool_parent_in_transcript_uncached(file, state, tool_use_id) ==
    IF tool_use_id \in DOMAIN state.tool_parents
    THEN [result |-> Some(state.tool_parents[tool_use_id]), state |-> state, scans |-> 0]
    ELSE [LookupScanned(update_transcript(state, file), tool_use_id) EXCEPT !.state = state]
search_tool_parent_in_transcript(file, state, tool_use_id) ==
    IF tool_use_id \in DOMAIN state.tool_parents
    THEN [result |-> Some(state.tool_parents[tool_use_id]), state |-> state, scans |-> 0]
    ELSE LookupScanned(update_transcript(state, file), tool_use_id)

search_tool_parent_in_subagent_transcript(file, agent_state, tool_use_id) ==
    IF tool_use_id \in DOMAIN agent_state.tool_parents
    THEN [result |-> Some(agent_state.tool_parents[tool_use_id]), state |-> agent_state, scans |-> 0]
    ELSE LookupScanned(update_transcript(agent_state, file), tool_use_id)

\* ----- transcript.py: _iter_assistant_blocks, extract_chat_from_transcript
RECURSIVE BlocksOf(_, _)
BlocksOf(content, ts) ==
    IF content = <<>> THEN <<>>
    ELSE <<[message |-> Head(content), timestamp |-> ts]>> \o BlocksOf(Tail(content), ts)

RECURSIVE AssistantBlocks(_)
AssistantBlocks(entries) ==
    IF entries = <<>> THEN <<>>
    ELSE LET e == Head(entries)
         IN (IF e.type = "assistant" /\ e.timestamp # NoTime
             THEN BlocksOf(e.content, e.timestamp) ELSE <<>>)
            \o AssistantBlocks(Tail(entries))

_iter_assistant_blocks(file) ==
    IF _load_transcript(file) = None THEN None
    ELSE Some(AssistantBlocks(_load_transcript(file)[1]))

ChatMessage(role, message, timestamp) ==
    [role |-> role, message |-> message, timestamp |-> timestamp]

RECURSIVE ChatOf(_)
ChatOf(blocks) ==
    IF blocks = <<>> THEN <<>>
    ELSE LET b == Head(blocks)
         IN (IF b.message.type = "text" /\ b.message.text # NoneStr
             THEN <<ChatMessage("assistant", b.message.text, b.timestamp)>> ELSE <<>>)
            \o ChatOf(Tail(blocks))

\* `if not blocks: return None` also maps an empty block list to None.
ChatOfBlocks(blocks) ==
    IF blocks = None \/ blocks[1] = <<>> THEN None ELSE Some(ChatOf(blocks[1]))

extract_chat_from_transcript(file) == ChatOfBlocks(_iter_assistant_blocks(file))

\* ----- transcript.py: extract_think_for_tool -------------------------------
\* the loop over the blocks, pending_think being the last thinking seen
\* since the last tool_use block
RECURSIVE ThinkIn(_, _, _)
\* mutant: a tool_use block of another tool does not reset the thinking
RECURSIVE ThinkIn_noreset(_, _, _)
ThinkIn_noreset(blocks, tool_use_id, pending_think) ==
    IF blocks = <<>> THEN NoneStr
    ELSE IF Head(blocks).message.type = "thinking"
    THEN ThinkIn_noreset(Tail(blocks), tool_use_id, Head(blocks).message.thinking)
    ELSE IF Head(blocks).message.type = "tool_use" /\ Head(blocks).message.id = tool_use_id
    THEN pending_think
    ELSE ThinkIn_noreset(Tail(blocks), tool_use_id, pending_think)
ThinkIn(blocks, tool_use_id, pending_think) ==
    IF blocks = <<>> THEN NoneStr
    ELSE IF Head(blocks).message.type = "thinking"
    THEN ThinkIn(Tail(blocks), tool_use_id, Head(blocks).message.thinking)
    ELSE IF Head(blocks).message.type = "tool_use"
    THEN IF Head(blocks).message.id = tool_use_id
         THEN pending_think
         ELSE ThinkIn(Tail(blocks), tool_use_id, NoneStr)
    ELSE ThinkIn(Tail(blocks), tool_use_id, pending_think)

\* `if not blocks: return None`
ThinkOfBlocks(blocks, tool_use_id) ==
    IF blocks = None \/ blocks[1] = <<>> THEN NoneStr
    ELSE ThinkIn(blocks[1], tool_use_id, NoneStr)

extract_think_for_tool(file, tool_use_id) ==
    IF tool_use_id = NoneStr THEN NoneStr
    ELSE ThinkOfBlocks(_iter_assistant_blocks(file), tool_use_id)

\* ----- models.py: SessionState.check_new_assistant_messages --------------
Key(m) == <<m.message, m.timestamp>>
\* mutant: the messages of every role are taken as known
SeenOf_anyrole(chat_history) == {Key(chat_history[i]) : i \in DOMAIN chat_history}
SeenOf(chat_history) ==
    {Key(chat_history[i]) : i \in {j \in DOMAIN chat_history : chat_history[j].role = "assistant"}}

RECURSIVE Dedupe(_, _)
Dedupe(seen, chat) ==
    IF chat = <<>> THEN <<>>
    ELSE LET m == Head(chat)
         IN IF Key(m) \in seen THEN Dedupe(seen, Tail(chat))
            ELSE <<m>> \o Dedupe(seen \cup {Key(m)}, Tail(chat))

\* list.sort(key=timestamp) is stable: insert each element after the
\* elements whose timestamp is <= its own.
RECURSIVE InsertByTimestamp(_, _)
InsertByTimestamp(sorted, m) ==
    IF sorted = <<>> THEN <<m>>
    ELSE IF Head(sorted).timestamp <= m.timestamp
         THEN <<Head(sorted)>> \o InsertByTimestamp(Tail(sorted), m)
         ELSE <<m>> \o sorted

RECURSIVE SortByTimestamp(_, _)
SortByTimestamp(acc, rest) ==
    IF rest = <<>> THEN acc
    ELSE SortByTimestamp(InsertByTimestamp(acc, Head(rest)), Tail(rest))

\* mutant: the known messages of the history are not consulted
check_new_assistant_messages_nohistory(chat_history, chat) ==
    SortByTimestamp(<<>>, Dedupe({}, chat))
check_new_assistant_messages(chat_history, chat) ==
    SortByTimestamp(<<>>, Dedupe(SeenOf(chat_history), chat))

\* ----- models.py: SessionState.add_new_assistant_messages ----------------
RECURSIVE MergeChat(_, _)
\* mutant: on equal timestamps the new message goes first
RECURSIVE MergeChat_newfirst(_, _)
MergeChat_newfirst(old, new) ==
    IF old = <<>> THEN new
    ELSE IF new = <<>> THEN old
    ELSE IF Head(old).timestamp < Head(new).timestamp
         THEN <<Head(old)>> \o MergeChat_newfirst(Tail(old), new)
         ELSE <<Head(new)>> \o MergeChat_newfirst(old, Tail(new))
MergeChat(old, new) ==
    IF old = <<>> THEN new
    ELSE IF new = <<>> THEN old
    ELSE IF Head(old).timestamp <= Head(new).timestamp
         THEN <<Head(old)>> \o MergeChat(Tail(old), new)
         ELSE <<Head(new)>> \o MergeChat(old, Tail(new))

\* mutant: the new messages are appended instead of merged
add_new_assistant_messages_append(chat_history, new) == chat_history \o new
add_new_assistant_messages(chat_history, new) == MergeChat(chat_history, new)

\* ----- spans.py: send_span, make_context ---------------------------------
\* A finished span: its AL2_NAME attribute, explicit span id or None (the
\* tracer draws one), parent span id or None, trace id, start and end time.
Span(kind, name, al2_name, span_id, parent, trace_id, start, end) ==
    [kind |-> kind, name |-> name, al2_name |-> al2_name, span_id |-> span_id,
     parent |-> parent, trace_id |-> trace_id, start |-> start, end |-> end]

\* What one invocation does to the outside, in program order.
NoRes == [tool |-> NoneStr, result |-> None, scans |-> 0, src |-> NoneStr]
SendSpan(span) == [op |-> "span", span |-> Some(span), res |-> NoRes]
SaveRecord == [op |-> "save", span |-> None, res |-> NoRes]
DeleteRecord == [op |-> "delete", span |-> None, res |-> NoRes]
Resolved(res) == [op |-> "resolve", span |-> None, res |-> res]

\* ----- models.py: SessionState, EpisodeState, SubagentState --------------
SessionState(trace_id) ==
    [trace_id |-> trace_id, chat_history |-> <<>>, episode |-> None,
     pending_tools_start_time |-> EmptyMap, subagents |-> <<>>,
     transcript_state |-> EmptyTranscriptState]

EpisodeState(span_id, start_ns, prompt_metadata_id, prompt_received_ns, prompt_text) ==
    [span_id |-> span_id, start_ns |-> start_ns, prompt_metadata_id |-> prompt_metadata_id,
     prompt_received_ns |-> prompt_received_ns, prompt_text |-> prompt_text]

SubagentState(agent_id, span_id, agent_type, start_time_ns, parent_span_id) ==
    [agent_id |-> agent_id, span_id |-> span_id, agent_type |-> agent_type,
     start_time_ns |-> start_time_ns, parent_span_id |-> parent_span_id,
     transcript_state |-> EmptyTranscriptState]

\* subagents is a dict in insertion order: a sequence of SubagentState.
AgentIndex(subagents, agent_id) ==
    {i \in DOMAIN subagents : subagents[i].agent_id = agent_id}
HasAgent(subagents, agent_id) == AgentIndex(subagents, agent_id) # {}
GetAgent(subagents, agent_id) ==
    subagents[CHOOSE i \in AgentIndex(subagents, agent_id) : TRUE]
PopAgent(subagents, agent_id) ==
    SelectSeq(subagents, LAMBDA a : a.agent_id # agent_id)

\* ----- state.py: SessionStateManager -------------------------------------
start_session(trace_id) == SessionState(trace_id)

is_episode_active(s) == s.episode # None

\* mutant: the prompt that starts the episode is not recorded
start_episode_resumed(s, prompt, n, t) ==
    [s EXCEPT !.episode = Some(EpisodeState(n, t, n + 1, t, "(resumed session)"))]
start_episode(s, prompt, n, t) ==
    [s EXCEPT !.episode = Some(EpisodeState(n, t, n + 1, t, prompt))]

add_chat_message(s, chat_msg, role, t) ==
    IF s.episode = None THEN s
    ELSE [s EXCEPT !.chat_history = Append(@, ChatMessage(role, chat_msg, t))]

\* mutant: a new prompt restarts the episode
update_prompt_restart(s, prompt, n, t) ==
    IF s.episode = None THEN s
    ELSE [s EXCEPT !.episode = Some(EpisodeState(n, t, n, t, prompt))]
update_prompt(s, prompt, n, t) ==
    IF s.episode = None THEN s
    ELSE [s EXCEPT !.episode = Some([@[1] EXCEPT !.prompt_text = prompt,
                                                 !.prompt_metadata_id = n,
                                                 !.prompt_received_ns = t])]

ChatSpans(s, new, t) ==
    [i \in DOMAIN new |->
        SendSpan(Span("chat", "claude_code.chat", <<"c", "h", "a", "t">>, None,
                      Some(s.episode[1].span_id),
                      s.trace_id, t, t))]

\* A handler's result: the session state it leaves and its effects.
Quiet(s) == [s |-> s, out |-> <<>>]
Then(r, effect) == [s |-> r.s, out |-> Append(r.out, effect)]

\* the new messages are merged into the history and emitted as chat spans
AddChats(s, new, t) ==
    [s |-> [s EXCEPT !.chat_history = add_new_assistant_messages(@, new)],
     out |-> IF s.episode # None /\ new # <<>> THEN ChatSpans(s, new, t) ELSE <<>>]

\* mutant: without an active episode the transcript's messages are left out
ChatsFrom_active_only(s, transcript_chat, t) ==
    IF transcript_chat = None \/ s.episode = None THEN Quiet(s)
    ELSE AddChats(s, check_new_assistant_messages(s.chat_history, transcript_chat[1]), t)
ChatsFrom(s, transcript_chat, t) ==
    IF transcript_chat = None THEN Quiet(s)
    ELSE AddChats(s, check_new_assistant_messages(s.chat_history, transcript_chat[1]), t)

_check_transcript_for_new_chats(s, file, t) ==
    ChatsFrom(s, extract_chat_from_transcript(file), t)

handle_notification(s, file, t) ==
    IF s.episode = None THEN Quiet(s)
    ELSE _check_transcript_for_new_chats(s, file, t)

\* mutant: ending the episode also drops what was started during it
end_episode_clears(s) ==
    [s EXCEPT !.episode = None, !.pending_tools_start_time = EmptyMap, !.subagents = <<>>]
end_episode(s) == [s EXCEPT !.episode = None]

\* the turn span of episode_data, emitted when the episode ends
\* str.replace("\n", " ")
ReplaceNewlines(value) == [i \in DOMAIN value |-> IF value[i] = "\n" THEN " " ELSE value[i]]

\* mutant: the line breaks of the prompt are kept
task_name_keepnewlines(episode_data) ==
    IF episode_data.prompt_text # NoneStr
    THEN truncate(TextOf(episode_data.prompt_text), 50)
    ELSE <<"t", "u", "r", "n">>
task_name(episode_data) ==
    IF episode_data.prompt_text # NoneStr
    THEN ReplaceNewlines(truncate(TextOf(episode_data.prompt_text), 50))
    ELSE <<"t", "u", "r", "n">>

TurnSpan(s, episode_data, t) ==
    SendSpan(Span("turn", "claude_code.turn", task_name(episode_data),
                  Some(episode_data.span_id), None, s.trace_id, episode_data.start_ns, t))

\* r: what _check_transcript_for_new_chats left
EndTurn(r, t) ==
    IF r.s.episode = None THEN r
    ELSE Then([s |-> end_episode(r.s), out |-> r.out], TurnSpan(r.s, r.s.episode[1], t))

\* mutant: without transcript chat the episode is left as it is
handle_stop_needs_chat(s, file, t) ==
    IF extract_chat_from_transcript(file) = None THEN Quiet(s)
    ELSE EndTurn(_check_transcript_for_new_chats(s, file, t), t)
handle_stop(s, file, t) == EndTurn(_check_transcript_for_new_chats(s, file, t), t)

\* mutant: a start for a registered subagent registers it anew
handle_subagent_start_again(s, agent_id, agent_type, n, t) ==
    [s EXCEPT !.subagents =
        Append(PopAgent(@, agent_id),
               SubagentState(agent_id, n, agent_type, t,
                             IF s.episode # None THEN Some(s.episode[1].span_id) ELSE None))]
handle_subagent_start(s, agent_id, agent_type, n, t) ==
    IF HasAgent(s.subagents, agent_id) THEN s
    ELSE [s EXCEPT !.subagents =
             Append(@, SubagentState(agent_id, n, agent_type, t,
                                     IF s.episode # None THEN Some(s.episode[1].span_id) ELSE None))]

SubagentSpan(s, agent, t) ==
    SendSpan(Span("subagent", "claude_code.subagent",
                  <<"s", "u", "b", "a", "g", "e", "n", "t", ".">> \o TextOf(agent.agent_type),
                  Some(agent.span_id),
                  agent.parent_span_id, s.trace_id, agent.start_time_ns, t))

\* mutant: the registration is read but not removed
handle_subagent_stop_keep(s, agent_id, t) ==
    IF ~HasAgent(s.subagents, agent_id) THEN Quiet(s)
    ELSE [s |-> s, out |-> <<SubagentSpan(s, GetAgent(s.subagents, agent_id), t)>>]
handle_subagent_stop(s, agent_id, t) ==
    IF ~HasAgent(s.subagents, agent_id) THEN Quiet(s)
    ELSE [s |-> [s EXCEPT !.subagents = PopAgent(@, agent_id)],
          out |-> <<SubagentSpan(s, GetAgent(s.subagents, agent_id), t)>>]

ToolKey(e) ==
    IF e.tool_use_id # NoneStr THEN e.tool_use_id
    ELSE IF e.tool_name # NoneStr THEN e.tool_name
    ELSE "unknown"

\* mutant: an earlier pending entry for the key is kept
handle_tool_selected_first(s, e, t) ==
    IF ToolKey(e) \in DOMAIN s.pending_tools_start_time THEN s
    ELSE [s EXCEPT !.pending_tools_start_time = Put(@, ToolKey(e), t)]
handle_tool_selected(s, e, t) ==
    [s EXCEPT !.pending_tools_start_time = Put(@, ToolKey(e), t)]

\* ----- state.py: _guess_parent_agent_for_tool ----------------------------
\* sub_files[agent_id] is the file at SubagentState.get_transcript_path.
\* Result: the StepParent or None, the session state with the caches the
\* scans filled, the number of transcript scans, and where the answer came
\* from ("main" cache or scan, "sub" cache or scan).
CachedInSubagents(subagents, tool_use_id) ==
    {i \in DOMAIN subagents : tool_use_id \in DOMAIN subagents[i].transcript_state.tool_parents}

Min(S) == CHOOSE x \in S : \A y \in S : x <= y

\* the i-th subagent's transcript is searched (r), its cache is kept, and
\* the loop returns on a find or goes on to the next subagent
RECURSIVE ScanSubagents(_, _, _, _, _)
RECURSIVE AfterSubagent(_, _, _, _, _, _)
AfterSubagent(s, i, r, tool_use_id, sub_files, scans) ==
    IF r.result # None
    THEN [result |-> r.result, s |-> [s EXCEPT !.subagents[i].transcript_state = r.state],
          scans |-> scans + r.scans, src |-> "sub"]
    ELSE ScanSubagents([s EXCEPT !.subagents[i].transcript_state = r.state],
                       i + 1, tool_use_id, sub_files, scans + r.scans)

ScanSubagents(s, i, tool_use_id, sub_files, scans) ==
    IF i > Len(s.subagents)
    THEN [result |-> None, s |-> s, scans |-> scans, src |-> NoneStr]
    ELSE AfterSubagent(s, i,
             search_tool_parent_in_subagent_transcript(
                 sub_files[s.subagents[i].agent_id],
                 s.subagents[i].transcript_state, tool_use_id),
             tool_use_id, sub_files, scans)

\* the main transcript was searched (r): its cache is kept, and a miss goes
\* on to the subagents' transcripts
AfterMain(s, r, tool_use_id, sub_files) ==
    IF r.result # None
    THEN [result |-> r.result, s |-> [s EXCEPT !.transcript_state = r.state],
          scans |-> r.scans, src |-> "main"]
    ELSE ScanSubagents([s EXCEPT !.transcript_state = r.state], 1, tool_use_id,
                       sub_files, r.scans)

_guess_parent_agent_for_tool(s, tool_use_id, main_file, sub_files) ==
    IF tool_use_id \in DOMAIN s.transcript_state.tool_parents
    THEN [result |-> Some(s.transcript_state.tool_parents[tool_use_id]),
          s |-> s, scans |-> 0, src |-> "main"]
    ELSE IF CachedInSubagents(s.subagents, tool_use_id) # {}
    THEN [result |-> Some(s.subagents[Min(CachedInSubagents(s.subagents, tool_use_id))]
                              .transcript_state.tool_parents[tool_use_id]),
          s |-> s, scans |-> 0, src |-> "sub"]
    ELSE AfterMain(s, search_tool_parent_in_transcript(main_file, s.transcript_state,
                                                      tool_use_id),
                   tool_use_id, sub_files)

\* ----- state.py: handle_tool_use -----------------------------------------
DefaultParent(s) == IF s.episode # None THEN Some(s.episode[1].span_id) ELSE None

\* mutant: an agent parent that is not registered leaves the span without parent
ToolSpanParent_unregistered(s, step_parent) ==
    IF step_parent # None /\ step_parent[1].type = "agent"
    THEN IF HasAgent(s.subagents, step_parent[1].id)
         THEN Some(GetAgent(s.subagents, step_parent[1].id).span_id)
         ELSE None
    ELSE DefaultParent(s)
ToolSpanParent(s, step_parent) ==
    IF step_parent # None /\ step_parent[1].type = "agent"
       /\ HasAgent(s.subagents, step_parent[1].id)
    THEN Some(GetAgent(s.subagents, step_parent[1].id).span_id)
    ELSE DefaultParent(s)

\* mutant: a tool completion clears the whole pending map
PopPending_all(s, tool_use_id) == [s EXCEPT !.pending_tools_start_time = EmptyMap]
PopPending(s, tool_use_id) ==
    [s EXCEPT !.pending_tools_start_time = Drop(@, tool_use_id)]

\* mutant: the pending start is ignored
ToolStart_now(s, tool_use_id, t) == t

\* mutant: a missing pending start defaults to 0, as pop(tool_use_id, 0)
ToolStart_zero(s, tool_use_id, t) ==
    IF tool_use_id \in DOMAIN s.pending_tools_start_time
    THEN s.pending_tools_start_time[tool_use_id] ELSE 0
ToolStart(s, tool_use_id, t) ==
    IF tool_use_id \in DOMAIN s.pending_tools_start_time
    THEN s.pending_tools_start_time[tool_use_id] ELSE t

\* g: what _guess_parent_agent_for_tool returned
ToolSpan(g, e, start_time_ns, t) ==
    [s |-> g.s,
     out |-> <<Resolved([tool |-> e.tool_use_id, result |-> g.result,
                         scans |-> g.scans, src |-> g.src]),
               SendSpan(Span("tool", e.tool_name,
                             <<"t", "o", "o", "l", ".">> \o TextOf(e.tool_name),
                             None, ToolSpanParent(g.s, g.result),
                             g.s.trace_id, start_time_ns, t))>>]

\* mutant: an event without tool-use id falls back to the tool name as key
handle_tool_use_fallback(s, e, main_file, sub_files, t) ==
    IF e.tool_use_id = NoneStr
    THEN ToolSpan(_guess_parent_agent_for_tool(PopPending(s, ToolKey(e)), ToolKey(e),
                                               main_file, sub_files),
                  e, ToolStart(s, ToolKey(e), t), t)
    ELSE ToolSpan(_guess_parent_agent_for_tool(PopPending(s, e.tool_use_id), e.tool_use_id,
                                               main_file, sub_files),
                  e, ToolStart(s, e.tool_use_id, t), t)
handle_tool_use(s, e, main_file, sub_files, t) ==
    IF e.tool_use_id = NoneStr THEN Quiet(s)
    ELSE ToolSpan(_guess_parent_agent_for_tool(PopPending(s, e.tool_use_id), e.tool_use_id,
                                               main_file, sub_files),
                  e, ToolStart(s, e.tool_use_id, t), t)

\* mutant: the record is deleted without flushing the active episode
handle_session_end_noflush(s, main_file, t) == Then(Quiet(s), DeleteRecord)
\* ----- state.py: handle_session_end --------------------------------------
handle_session_end(s, main_file, t) ==
    Then(IF is_episode_active(s) THEN handle_stop(s, main_file, t) ELSE Quiet(s),
         DeleteRecord)

\* ----- cc_tracer.py: process_event ---------------------------------------
Event(name, prompt, tool_use_id, tool_name, agent_id) ==
    [hook_event_name |-> name, prompt |-> prompt, tool_use_id |-> tool_use_id,
     tool_name |-> tool_name, agent_id |-> agent_id]

\* mutant: a PostToolUse that arrives while idle starts no episode
StartsEpisode_noresume == {"UserPromptSubmit", "PreToolUse", "Notification"}
StartsEpisode == {"UserPromptSubmit", "PreToolUse", "PostToolUse", "Notification"}

\* Result: the session state, the effects in program order, whether the
\* record is saved, the next unused uuid, and whether an exception was
\* raised.
Saved(r, n) ==
    [s |-> r.s, out |-> Append(r.out, SaveRecord), saved |-> TRUE, n |-> n, raised |-> FALSE]
\* mutant: the handler does not return before the final save
Unsaved_falls_through(r, n) ==
    [s |-> r.s, out |-> Append(r.out, SaveRecord), saved |-> TRUE, n |-> n, raised |-> FALSE]
Unsaved(r, n) ==
    [s |-> r.s, out |-> r.out, saved |-> FALSE, n |-> n, raised |-> FALSE]
\* an exception leaves process_event before the record is saved
Raised(s, n) == [s |-> s, out |-> <<>>, saved |-> FALSE, n |-> n, raised |-> TRUE]

\* the dispatch on the event name, s being the state after the episode
\* was started if it had to be
Dispatch(s, e, episode_was_active, n, t, main_file, sub_files) ==
    CASE e.hook_event_name = "UserPromptSubmit" ->
             IF episode_was_active
             THEN Saved(Quiet(update_prompt(add_chat_message(s, e.prompt, "user", t),
                                            e.prompt, n, t)), n + 1)
             ELSE Saved(Quiet(add_chat_message(s, e.prompt, "user", t)), n)
      [] e.hook_event_name = "PreToolUse" ->
             Saved(Quiet(handle_tool_selected(s, e, t)), n)
      [] e.hook_event_name = "PostToolUse" ->
             Saved(handle_tool_use(s, e, main_file, sub_files, t), n)
      [] e.hook_event_name = "Notification" ->
             Saved(handle_notification(s, main_file, t), n)
      [] e.hook_event_name = "Stop" ->
             Saved(handle_stop(s, main_file, t), n)
      [] e.hook_event_name = "SubagentStart" ->
             Saved(Quiet(handle_subagent_start(s, e.agent_id, "general", n, t)),
                   IF HasAgent(s.subagents, e.agent_id) THEN n ELSE n + 1)
      [] e.hook_event_name = "SubagentStop" ->
             Saved(handle_subagent_stop(s, e.agent_id, t), n)
      [] e.hook_event_name = "SessionEnd" ->
             Unsaved(handle_session_end(s, main_file, t), n)
      [] OTHER -> Saved(Quiet(s), n)

\* mutant: the prompt of a UserPromptSubmit is not checked
process_event_unchecked(s, e, n, t, main_file, sub_files) ==
    IF e.hook_event_name \in StartsEpisode /\ ~is_episode_active(s)
    THEN Dispatch(start_episode(s, IF e.hook_event_name = "UserPromptSubmit"
                                   THEN e.prompt ELSE "(resumed session)", n, t),
                  e, FALSE, n + 2, t, main_file, sub_files)
    ELSE Dispatch(s, e, is_episode_active(s), n, t, main_file, sub_files)
process_event(s, e, n, t, main_file, sub_files) ==
    IF e.hook_event_name = "UserPromptSubmit" /\ e.prompt = NoneStr
    THEN Raised(s, n)
    ELSE IF e.hook_event_name \in StartsEpisode /\ ~is_episode_active(s)
    THEN Dispatch(start_episode(s, IF e.hook_event_name = "UserPromptSubmit"
                                   THEN e.prompt ELSE "(resumed session)", n, t),
                  e, FALSE, n + 2, t, main_file, sub_files)
    ELSE Dispatch(s, e, is_episode_active(s), n, t, main_file, sub_files)

\* ----- models.py: SessionState.from_session_id ---------------------------
\* The file of the session id is absent (None), holds a SessionState, or is
\* corrupted: text that fails validation ("invalid"), or bytes that
\* read_text cannot decode ("undecodable").
Corrupted(kind) == [corrupted |-> kind]
IsCorrupted(record) == record # None /\ "corrupted" \in DOMAIN record[1]
\* read_text raises UnicodeDecodeError, which is not a ValidationError
LoadRaises(record) == IsCorrupted(record) /\ record[1].corrupted = "undecodable"
\* the SessionState loaded, or None (no file, or ValidationError caught)
LoadState(record) == IF record = None \/ IsCorrupted(record) THEN None ELSE record

\* ----- state.py: SessionStateManager.from_session_id ---------------------
\* mutant: the persisted record is never reused
from_session_id_fresh(record, n) == [s |-> start_session(n), n |-> n + 1]
from_session_id(record, n) ==
    IF LoadState(record) = None THEN [s |-> start_session(n), n |-> n + 1]
    ELSE [s |-> LoadState(record)[1], n |-> n]

\* ----- cc_tracer.py: main ------------------------------------------------
\* Result: the record left on disk (None after a delete; the record found
\* when an exception ended the invocation before any write), the effects in
\* program order, the next unused uuid and whether an exception was raised.
Persisted(record, r) ==
    IF r.raised
    THEN [record |-> record, out |-> r.out, n |-> r.n, raised |-> TRUE]
    ELSE [record |-> IF r.saved THEN Some(r.s) ELSE None, out |-> r.out, n |-> r.n,
          raised |-> FALSE]

\* m: the session state from_session_id loaded or created
Handle(record, m, e, t, main_file, sub_files) ==
    IF e.hook_event_name = "SessionStart"
    THEN [record |-> Some(m.s), out |-> <<SaveRecord>>, n |-> m.n, raised |-> FALSE]
    ELSE Persisted(record, process_event(m.s, e, m.n, t, main_file, sub_files))

main(record, e, n, t, main_file, sub_files) ==
    IF LoadRaises(record)
    THEN [record |-> record, out |-> <<>>, n |-> n, raised |-> TRUE]
    ELSE Handle(record, from_session_id(record, n), e, t, main_file, sub_files)

\* ----- the state ---------------------------------------------------------
VARIABLES
    disk,     \* the persisted record of the session id: None or SessionState
    mainT,    \* the main transcript file: its records, append-only
    subT,     \* subT[a]: the transcript file of subagent a
    now,      \* the clock
    nextId,   \* the next value uuid4() returns
    hist,     \* history: the events processed so far, with their clock value
    pre,      \* history: the persisted record before the last invocation
    log,      \* history: every effect so far, in order, with its clock value
    call      \* a call of a pure function: its arguments and its result

vars == <<disk, mainT, subT, now, nextId, hist, pre, log, call>>

NoCall == [value |-> <<>>, max_length |-> 0, result |-> <<>>, done |-> TRUE]

Stamp(effects, t) ==
    [i \in DOMAIN effects |->
        [at |-> t, op |-> effects[i].op, span |-> effects[i].span, res |-> effects[i].res]]

\* path.read_text(): the text of a file, or None when reading raises
\* FileNotFoundError, PermissionError or UnicodeDecodeError.  A file that
\* cannot be read is held as a single marker naming the error.
UnreadableKinds == {"FileNotFoundError", "PermissionError", "UnicodeDecodeError"}
Unreadable(kind) == <<[type |-> "unreadable", kind |-> kind]>>
IsUnreadable(content) == content # <<>> /\ Head(content).type = "unreadable"
ReadFile(content) == IF IsUnreadable(content) THEN None ELSE Some(content)

MainFile == ReadFile(mainT)
SubFiles == [a \in AgentIds |-> ReadFile(subT[a])]

Init ==
    /\ disk = None
    /\ mainT = <<>>
    /\ subT = [a \in AgentIds |-> <<>>]
    /\ now = 0
    /\ nextId = 1
    /\ hist = <<>>
    /\ pre = None
    /\ log = <<>>
    /\ call = NoCall

\* One hook invocation for event e, r being what main did.
Finish(e, r) ==
    /\ disk' = r.record
    /\ nextId' = r.n
    /\ log' = log \o Stamp(r.out, now)
    /\ pre' = disk
    /\ hist' = Append(hist, [e |-> e, at |-> now, raised |-> r.raised])
    /\ now' = now + 1
    /\ UNCHANGED <<mainT, subT, call>>

Invoke(e) == Finish(e, main(disk, e, nextId, now, MainFile, SubFiles))

SessionStart ==
    /\ now < MaxTime
    /\ Invoke(Event("SessionStart", NoneStr, NoneStr, NoneStr, NoneStr))
UserPromptSubmit ==
    /\ now < MaxTime
    /\ \E p \in Prompts : Invoke(Event("UserPromptSubmit", p, NoneStr, NoneStr, NoneStr))
PreToolUse ==
    /\ now < MaxTime
    /\ \E f \in {<<"t1", "Bash">>, <<NoneStr, "Bash">>, <<NoneStr, NoneStr>>} :
          Invoke(Event("PreToolUse", NoneStr, f[1], f[2], NoneStr))
PostToolUse ==
    /\ now < MaxTime
    /\ \E f \in {<<"t1", "Bash">>, <<NoneStr, "Bash">>} :
          Invoke(Event("PostToolUse", NoneStr, f[1], f[2], NoneStr))
Notification ==
    /\ now < MaxTime
    /\ Invoke(Event("Notification", NoneStr, NoneStr, NoneStr, NoneStr))
Stop ==
    /\ now < MaxTime
    /\ Invoke(Event("Stop", NoneStr, NoneStr, NoneStr, NoneStr))
SubagentStart ==
    /\ now < MaxTime
    /\ \E a \in AgentIds : Invoke(Event("SubagentStart", NoneStr, NoneStr, NoneStr, a))
SubagentStop ==
    /\ now < MaxTime
    /\ \E a \in AgentIds : Invoke(Event("SubagentStop", NoneStr, NoneStr, NoneStr, a))
SessionEnd ==
    /\ now < MaxTime
    /\ Invoke(Event("SessionEnd", NoneStr, NoneStr, NoneStr, NoneStr))
UnknownEvent ==
    /\ now < MaxTime
    /\ Invoke(Event("PreCompact", NoneStr, NoneStr, NoneStr, NoneStr))

\* a UserPromptSubmit event that carries no prompt
UserPromptSubmitNoPrompt ==
    /\ now < MaxTime
    /\ Invoke(Event("UserPromptSubmit", NoneStr, NoneStr, NoneStr, NoneStr))

\* a PostToolUse event that carries neither tool-use id nor tool name
PostToolUseUnnamed ==
    /\ now < MaxTime
    /\ Invoke(Event("PostToolUse", NoneStr, NoneStr, NoneStr, NoneStr))

\* a PostToolUse event whose tool-use id is the string of a tool name
PostToolUseToolName ==
    /\ now < MaxTime
    /\ Invoke(Event("PostToolUse", NoneStr, "Bash", "Bash", NoneStr))

\* The file of the session record is damaged between two invocations.
CorruptRecord ==
    /\ now < MaxTime
    /\ disk # None
    /\ \E kind \in {"invalid", "undecodable"} : disk' = Some(Corrupted(kind))
    /\ now' = now + 1
    /\ UNCHANGED <<mainT, subT, nextId, hist, pre, log, call>>

\* The main transcript, alone or with the subagents' transcripts, becomes
\* unreadable: deleted, protected or damaged.
LoseTranscripts ==
    /\ now < MaxTime
    /\ ~IsUnreadable(mainT)
    /\ \E kind \in UnreadableKinds : \E subs \in BOOLEAN :
          /\ mainT' = Unreadable(kind)
          /\ subT' = IF subs THEN [a \in AgentIds |-> Unreadable(kind)] ELSE subT
    /\ now' = now + 1
    /\ UNCHANGED <<disk, nextId, hist, pre, log, call>>

\* The producing process appends records; written records never change.  A
\* record is written at a clock value of its own and is stamped with that
\* value or with the one before it.
Stamps == {ts \in {now - 1, now} : ts >= 0}

AppendToMain(entry) ==
    /\ mainT' = Append(mainT, entry)
    /\ now' = now + 1
    /\ UNCHANGED <<disk, subT, nextId, hist, pre, log, call>>

\* an assistant record of the main agent with one text block
AppendText ==
    /\ now < MaxTime
    /\ \E ts \in Stamps : \E m \in Texts :
          AppendToMain(AssistantEntry(NoneStr, ts, <<TextBlock(m)>>))

\* an assistant record tagged with an agent id, with one tool_use block
AppendToolUse ==
    /\ now < MaxTime
    /\ \E a \in AgentIds \cup OtherAgentIds : \E t \in ToolUseIds :
          AppendToMain(AssistantEntry(a, now, <<ToolUseBlock(t)>>))

\* a progress record: tool t spawned subagent a
AppendProgress ==
    /\ now < MaxTime
    /\ \E t \in ToolUseIds : \E a \in AgentIds : AppendToMain(ProgressEntry(t, a))

\* an assistant record in a subagent's own transcript
AppendSub ==
    /\ now < MaxTime
    /\ \E a \in AgentIds : \E t \in ToolUseIds :
          subT' = [subT EXCEPT ![a] = Append(@, AssistantEntry(a, now, <<ToolUseBlock(t)>>))]
    /\ now' = now + 1
    /\ UNCHANGED <<disk, mainT, nextId, hist, pre, log, call>>

\* Every hook event, with the assistant's text arriving in the transcript.
Next ==
    \/ SessionStart
    \/ UserPromptSubmit
    \/ PreToolUse
    \/ PostToolUse
    \/ Notification
    \/ Stop
    \/ SubagentStart
    \/ SubagentStop
    \/ SessionEnd
    \/ UnknownEvent
    \/ AppendText

Spec == Init /\ [][Next]_vars

\* The events that emit child spans and create, use and discard parent
\* caches, with every kind of record arriving in the main and subagent
\* transcripts.
NextParents ==
    \/ UserPromptSubmit
    \/ PostToolUse
    \/ Notification
    \/ Stop
    \/ SubagentStart
    \/ SubagentStop
    \/ SessionEnd
    \/ AppendText
    \/ AppendToolUse
    \/ AppendProgress
    \/ AppendSub

SpecParents == Init /\ [][NextParents]_vars

\* The events that read or write the chat history, with the assistant's
\* text arriving in the transcript.
NextChat ==
    \/ UserPromptSubmit
    \/ Notification
    \/ Stop
    \/ SessionEnd
    \/ AppendText

SpecChat == Init /\ [][NextChat]_vars

\* Every hook event, without the transcripts.
NextEvents ==
    \/ SessionStart
    \/ UserPromptSubmit
    \/ PreToolUse
    \/ PostToolUse
    \/ Notification
    \/ Stop
    \/ SubagentStart
    \/ SubagentStop
    \/ SessionEnd
    \/ UnknownEvent

SpecEvents == Init /\ [][NextEvents]_vars

\* The tool events among the events that start and end episodes and
\* register subagents, with text and tool_use records arriving in the main
\* transcript.
NextTools ==
    \/ UserPromptSubmit
    \/ PreToolUse
    \/ PostToolUse
    \/ PostToolUseUnnamed
    \/ Stop
    \/ SubagentStart
    \/ AppendText
    \/ AppendToolUse

SpecTools == Init /\ [][NextTools]_vars

\* The events that read the transcripts, with the transcripts filling and
\* becoming unreadable.
NextUnreadable ==
    \/ UserPromptSubmit
    \/ PostToolUse
    \/ Notification
    \/ Stop
    \/ SubagentStart
    \/ AppendText
    \/ AppendToolUse
    \/ AppendSub
    \/ LoseTranscripts

SpecUnreadable == Init /\ [][NextUnreadable]_vars

\* Every hook event, with tool completions that carry a tool-use id, none,
\* and a tool name as tool-use id.
NextPending ==
    \/ SessionStart
    \/ UserPromptSubmit
    \/ PreToolUse
    \/ PostToolUse
    \/ PostToolUseToolName
    \/ Notification
    \/ Stop
    \/ SubagentStart
    \/ SubagentStop
    \/ SessionEnd
    \/ UnknownEvent

SpecPending == Init /\ [][NextPending]_vars

\* The faults of section 7: an event without its required field and a
\* damaged session record, among the events that create, change and delete
\* the record.
NextFaults ==
    \/ SessionStart
    \/ UserPromptSubmit
    \/ UserPromptSubmitNoPrompt
    \/ PreToolUse
    \/ Stop
    \/ SubagentStart
    \/ SessionEnd
    \/ CorruptRecord

SpecFaults == Init /\ [][NextFaults]_vars

\* truncate applied to strings of every length up to MaxValueLen, for every
\* max_length up to MaxMaxLength.
Chr(i) == <<"a", "b", "c", "d", "e", "f", "g">>[(i % 7) + 1]
Str(n) == [i \in 1..n |-> Chr(i)]

InitTruncate ==
    /\ disk = None
    /\ mainT = <<>>
    /\ subT = [a \in AgentIds |-> <<>>]
    /\ now = 0
    /\ nextId = 1
    /\ hist = <<>>
    /\ pre = None
    /\ log = <<>>
    /\ \E n \in 0..MaxValueLen : \E m \in 0..MaxMaxLength :
          call = [value |-> Str(n), max_length |-> m, result |-> <<>>, done |-> FALSE]

Truncate ==
    /\ ~call.done
    /\ call' = [call EXCEPT !.result = truncate(call.value, call.max_length), !.done = TRUE]
    /\ UNCHANGED <<disk, mainT, subT, now, nextId, hist, pre, log>>

NextTruncate == Truncate

SpecTruncate == InitTruncate /\ [][NextTruncate]_vars

\* extract_think_for_tool applied to every stream of up to MaxBlocks
\* content blocks, written as the assistant records of a transcript, for
\* tool-use ids that occur in the streams and one that does not.
ThinkBlocks ==
    {ThinkingBlock(th) : th \in {"T1", "T2", NoneStr}}
    \cup {ToolUseBlock(t) : t \in {"t1", "t2"}}
    \cup {TextBlock("A")}
ThinkStreams == UNION {[1..n -> ThinkBlocks] : n \in 0..MaxBlocks}
\* the stream as a transcript: a record with the first block and a record
\* with the others
ThinkTranscript(content) ==
    <<AssistantEntry(NoneStr, 0, Slice(content, 1)),
      AssistantEntry(NoneStr, 1, IF content = <<>> THEN <<>> ELSE Tail(content))>>

InitThink ==
    /\ disk = None
    /\ mainT = <<>>
    /\ subT = [a \in AgentIds |-> <<>>]
    /\ now = 0
    /\ nextId = 1
    /\ hist = <<>>
    /\ pre = None
    /\ log = <<>>
    /\ \E content \in ThinkStreams : \E t \in {"t1", "t2", "t3"} :
          call = [content |-> content, tool_use_id |-> t, result |-> NoneStr, done |-> FALSE]

Think ==
    /\ ~call.done
    /\ call' = [call EXCEPT !.result = extract_think_for_tool(
                                           Some(ThinkTranscript(call.content)),
                                           call.tool_use_id),
                            !.done = TRUE]
    /\ UNCHANGED <<disk, mainT, subT, now, nextId, hist, pre, log>>

NextThink == Think

SpecThink == InitThink /\ [][NextThink]_vars

\* Scans of a TranscriptState cache: update_transcript applied again and
\* again, each time to another transcript.
\* transcripts of one or two records that give tool-use ids and subagent
\* ids different parents
ScanRecords ==
    {AssistantEntry(a, 0, <<ToolUseBlock(t)>>) : a \in {"a1", "a2"}, t \in {"t1", "t2"}}
    \cup {ProgressEntry(t, a) : t \in {"t1", "t2"}, a \in {"a1", "a2"}}
ScanTranscripts ==
    {<<r>> : r \in ScanRecords} \cup {<<r, q>> : r \in ScanRecords, q \in ScanRecords}

InitScan ==
    /\ disk = None
    /\ mainT = <<>>
    /\ subT = [a \in AgentIds |-> <<>>]
    /\ now = 0
    /\ nextId = 1
    /\ hist = <<>>
    /\ pre = None
    /\ log = <<>>
    /\ \E T \in ScanTranscripts :
          call = [cache |-> EmptyTranscriptState, transcript |-> T]

Scan ==
    /\ \E T \in ScanTranscripts :
          call' = [cache |-> update_transcript(call.cache, Some(call.transcript)),
                   transcript |-> T]
    /\ UNCHANGED <<disk, mainT, subT, now, nextId, hist, pre, log>>

NextScan == Scan

SpecScan == InitScan /\ [][NextScan]_vars

\* Overlapping invocations for one session id: main reads the record
\* (from_session_id), and processes the event and writes the record later;
\* no lock is held in between, so other invocations read and write the
\* record meanwhile.  call.flight holds the invocations that have read the
\* record and not yet finished, call.done what each finished invocation had
\* read.
MaxFlight == 2
\* the number of invocations of a behaviour of SpecRace
MaxInvocations == 3

\* mutant: the record is read again when the event is processed
ManagerState_reload(loaded, record) ==
    IF LoadState(record) = None THEN loaded ELSE LoadState(record)[1]
\* the state the manager processes and saves is the one it loaded
ManagerState(loaded, record) == loaded

InitRace ==
    /\ disk = None
    /\ mainT = <<>>
    /\ subT = [a \in AgentIds |-> <<>>]
    /\ now = 0
    /\ nextId = 1
    /\ hist = <<>>
    /\ pre = None
    /\ log = <<>>
    /\ call = [flight |-> <<>>, done |-> <<>>]

RaceEvents ==
    {Event("SessionStart", NoneStr, NoneStr, NoneStr, NoneStr),
     Event("UserPromptSubmit", "A", NoneStr, NoneStr, NoneStr),
     Event("PreToolUse", NoneStr, "t1", "Bash", NoneStr),
     Event("PostToolUse", NoneStr, "t1", "Bash", NoneStr),
     Event("Stop", NoneStr, NoneStr, NoneStr, NoneStr),
     Event("SubagentStart", NoneStr, NoneStr, NoneStr, "a1"),
     Event("SessionEnd", NoneStr, NoneStr, NoneStr, NoneStr)}

\* m: what from_session_id returned
Loading(e, m) ==
    /\ call' = [call EXCEPT !.flight = Append(@, [e |-> e, s |-> m.s, loaded_at |-> now])]
    /\ nextId' = m.n
    /\ UNCHANGED <<disk, mainT, subT, now, hist, pre, log>>

\* an invocation starts and reads the record
Load ==
    /\ now < MaxTime
    /\ Len(call.flight) < MaxFlight
    /\ Len(call.flight) + Len(call.done) < MaxInvocations
    /\ ~LoadRaises(disk)
    /\ \E e \in RaceEvents : Loading(e, from_session_id(disk, nextId))

Without(flight, i) == SubSeq(flight, 1, i - 1) \o SubSeq(flight, i + 1, Len(flight))

\* f: the invocation; r: what main did from the state f had loaded
Completing(i, f, r) ==
    /\ disk' = r.record
    /\ nextId' = r.n
    /\ log' = log \o Stamp(r.out, now)
    /\ pre' = disk
    /\ hist' = Append(hist, [e |-> f.e, at |-> now, raised |-> r.raised])
    /\ call' = [flight |-> Without(call.flight, i),
                done |-> Append(call.done, [e |-> f.e, s |-> f.s, loaded_at |-> f.loaded_at,
                                            n |-> nextId, at |-> now])]
    /\ now' = now + 1
    /\ UNCHANGED <<mainT, subT>>

\* an invocation that has read the record processes its event and writes
\* the record
Complete ==
    /\ now < MaxTime
    /\ \E i \in DOMAIN call.flight :
          Completing(i, call.flight[i],
                     Handle(disk, [s |-> ManagerState(call.flight[i].s, disk), n |-> nextId],
                            call.flight[i].e, now, MainFile, SubFiles))

NextRace ==
    \/ Load
    \/ Complete

SpecRace == InitRace /\ [][NextRace]_vars

\* ----- reading the history -----------------------------------------------
Invoked == hist # <<>>
LastEv == hist[Len(hist)].e
LastAt == hist[Len(hist)].at
\* the effects of the last invocation, in program order
Out == SelectSeq(log, LAMBDA x : x.at = LastAt)
IsSpan(x, kind) == x.op = "span" /\ x.span[1].kind = kind
SpanIdx(effects, kind) == {i \in DOMAIN effects : IsSpan(effects[i], kind)}
OpIdx(effects, op) == {i \in DOMAIN effects : effects[i].op = op}
EpisodeOf(record) == IF record = None THEN None ELSE record[1].episode
PendingOf(record) == IF record = None THEN EmptyMap ELSE record[1].pending_tools_start_time

\* ----- C1 ----------------------------------------------------------------
\* C1: at most one episode is active; a UserPromptSubmit processed while an
\* episode is active replaces the episode's prompt text and prompt
\* correlation id and leaves its start time and span id unchanged.
C1_UpdateInPlace ==
    /\ Len(EpisodeOf(disk)) <= 1
    /\ (Invoked /\ LastEv.hook_event_name = "UserPromptSubmit" /\ EpisodeOf(pre) # None) =>
          /\ EpisodeOf(disk) # None
          /\ LET old == EpisodeOf(pre)[1]
                 new == EpisodeOf(disk)[1]
             IN /\ new.span_id = old.span_id
                /\ new.start_ns = old.start_ns
                /\ new.prompt_text = LastEv.prompt
                /\ new.prompt_metadata_id # old.prompt_metadata_id

C1_Witness ==
    /\ Invoked /\ LastEv.hook_event_name = "UserPromptSubmit" /\ LastEv.prompt = "B"
    /\ EpisodeOf(pre) # None /\ EpisodeOf(pre)[1].prompt_text = "A"
    /\ EpisodeOf(disk) # None /\ EpisodeOf(disk)[1].prompt_text = "B"
    /\ EpisodeOf(disk)[1].start_ns < LastAt

\* ----- C2 ----------------------------------------------------------------
\* C2: SessionEnd while an episode is active emits exactly one turn span,
\* before the record is deleted; SessionEnd while idle emits no turn span.
C2_SessionEndFlush ==
    (Invoked /\ LastEv.hook_event_name = "SessionEnd") =>
        IF EpisodeOf(pre) # None
        THEN /\ Cardinality(SpanIdx(Out, "turn")) = 1
             /\ OpIdx(Out, "delete") # {}
             /\ \A i \in SpanIdx(Out, "turn") : \A j \in OpIdx(Out, "delete") : i < j
             /\ disk = None
        ELSE SpanIdx(Out, "turn") = {}

C2_Witness ==
    /\ Invoked /\ LastEv.hook_event_name = "SessionEnd"
    /\ EpisodeOf(pre) # None
    /\ Cardinality(SpanIdx(Out, "turn")) = 1
    /\ disk = None

\* ----- C3 ----------------------------------------------------------------
ToolSpanAt(t, start) ==
    \E k \in DOMAIN log : IsSpan(log[k], "tool") /\ log[k].at = t /\ log[k].span[1].start = start
NoToolSpanAt(t) == \A k \in DOMAIN log : ~(IsSpan(log[k], "tool") /\ log[k].at = t)
IsEv(i, name) == hist[i].e.hook_event_name = name
Last == Len(hist)

\* C3 as claimed, stated of the last event j processed and every earlier
\* event i: PreToolUse i and PostToolUse j share the key (tool-use id, else
\* tool name, else "unknown"), with no other select or completion of that
\* key and no SessionEnd in between; then the completion emits a tool span
\* that starts at the select's timestamp.
C3_Original ==
    \A i \in DOMAIN hist :
        ( /\ i < Last /\ IsEv(i, "PreToolUse") /\ IsEv(Last, "PostToolUse")
          /\ ToolKey(hist[i].e) = ToolKey(LastEv)
          /\ \A m \in (i + 1)..(Last - 1) :
                /\ ~(IsEv(m, "PreToolUse") /\ ToolKey(hist[m].e) = ToolKey(hist[i].e))
                /\ ~(IsEv(m, "PostToolUse") /\ ToolKey(hist[m].e) = ToolKey(hist[i].e))
                /\ ~IsEv(m, "SessionEnd") )
        => ToolSpanAt(LastAt, hist[i].at)

\* C3 amended: the completion must carry a tool-use id equal to the select's
\* key; then its tool span starts at the select's timestamp.  A completion
\* without tool-use id emits no tool span.
C3_SelectTimeIsSpanStart ==
    /\ \A i \in DOMAIN hist :
        ( /\ i < Last /\ IsEv(i, "PreToolUse") /\ IsEv(Last, "PostToolUse")
          /\ LastEv.tool_use_id # NoneStr
          /\ ToolKey(hist[i].e) = LastEv.tool_use_id
          /\ \A m \in (i + 1)..(Last - 1) :
                /\ ~(IsEv(m, "PreToolUse") /\ ToolKey(hist[m].e) = ToolKey(hist[i].e))
                /\ ~(IsEv(m, "PostToolUse") /\ hist[m].e.tool_use_id = ToolKey(hist[i].e))
                /\ ~IsEv(m, "SessionEnd") )
        => ToolSpanAt(LastAt, hist[i].at)
    /\ (Invoked /\ IsEv(Last, "PostToolUse") /\ LastEv.tool_use_id = NoneStr)
        => NoToolSpanAt(LastAt)

C3_Witness ==
    \E i \in DOMAIN hist :
        /\ i + 1 < Last /\ IsEv(i, "PreToolUse") /\ IsEv(Last, "PostToolUse")
        /\ IsEv(i + 1, "Stop")
        /\ hist[i].e.tool_use_id = "t1" /\ LastEv.tool_use_id = "t1"
        /\ LastAt > hist[i].at + 2
        /\ ToolSpanAt(LastAt, hist[i].at)

SameToolResolvedTwice(i, j) ==
    /\ i < j /\ log[i].op = "resolve" /\ log[j].op = "resolve"
    /\ log[j].at = LastAt
    /\ log[i].res.tool = log[j].res.tool
    /\ log[i].at < log[j].at
    /\ \A k \in i..j : log[k].op # "delete"

\* C5 as claimed: the second resolution of a tool-use id, in a later
\* invocation on the persisted record, returns what the first returned
\* (StepParent or none) and scans no transcript.
C5_Original ==
    \A i, j \in DOMAIN log :
        SameToolResolvedTwice(i, j) =>
            /\ log[j].res.result = log[i].res.result
            /\ log[j].res.scans = 0

\* C5 amended: it holds when the first resolution returned a StepParent
\* held in the main cache (a main cache hit or the main transcript scan).
C5_MainCacheRepeats ==
    \A i, j \in DOMAIN log :
        (SameToolResolvedTwice(i, j) /\ log[i].res.result # None /\ log[i].res.src = "main") =>
            /\ log[j].res.result = log[i].res.result
            /\ log[j].res.scans = 0

C5_Witness ==
    \E i, j \in DOMAIN log :
        /\ SameToolResolvedTwice(i, j)
        /\ log[i].res.result # None /\ log[i].res.src = "main" /\ log[i].res.scans = 1
        /\ log[j].res.result = log[i].res.result /\ log[j].res.scans = 0

\* ----- C6 ----------------------------------------------------------------
ClearCaches(s) ==
    [s EXCEPT !.transcript_state = EmptyTranscriptState,
              !.subagents = [i \in DOMAIN @ |-> [@[i] EXCEPT !.transcript_state = EmptyTranscriptState]]]

\* C6: with append-only transcripts, resolving a tool-use id with the
\* persisted caches gives the same result as resolving it with every cache
\* discarded and recomputed from the transcripts at that moment.
C6_CachesTransparent ==
    disk # None =>
        \A tool \in ToolUseIds :
            _guess_parent_agent_for_tool(disk[1], tool, MainFile, SubFiles).result
            = _guess_parent_agent_for_tool(ClearCaches(disk[1]), tool, MainFile, SubFiles).result

\* ----- C7 ----------------------------------------------------------------
\* transcripts of at most two assistant text records, in any order of
\* their stamps and with repeated records
SampleRecords == {AssistantEntry(NoneStr, ts, <<TextBlock(m)>>) : ts \in 0..2, m \in Texts}
SampleTranscripts ==
    {<<r>> : r \in SampleRecords} \cup {<<r, q>> : r \in SampleRecords, q \in SampleRecords}

\* a second application to state s adds nothing and emits nothing
AddsNothing(s, T) ==
    LET again == _check_transcript_for_new_chats(s, Some(T), now)
    IN again.s.chat_history = s.chat_history /\ again.out = <<>>

\* C7: extracting a transcript's assistant messages, deduplicating against
\* the history and merging, applied twice in a row, leaves the history of
\* one application; the second application adds nothing and emits no span.
C7_MergeIdempotent ==
    disk # None =>
        \A T \in {mainT} \cup SampleTranscripts :
            AddsNothing(_check_transcript_for_new_chats(disk[1], Some(T), now).s, T)

C7_Witness ==
    /\ disk # None /\ disk[1].chat_history # <<>> /\ EpisodeOf(disk) # None
    /\ LET once == _check_transcript_for_new_chats(disk[1], MainFile, now)
       IN /\ Len(once.s.chat_history) > Len(disk[1].chat_history)
          /\ once.out # <<>>
          /\ _check_transcript_for_new_chats(once.s, MainFile, now).s = once.s

\* ----- C8 ----------------------------------------------------------------
Sorted(chat) == \A i \in 1..(Len(chat) - 1) : chat[i].timestamp <= chat[i + 1].timestamp

\* C8: the chat history is sorted by non-decreasing timestamp in every
\* reachable state; merging [(1,a),(3,c)] with [(2,b)] gives [(1,a),(2,b),(3,c)].
C8_ChatSorted ==
    /\ disk # None => Sorted(disk[1].chat_history)
    /\ add_new_assistant_messages(
           <<ChatMessage("assistant", "a", 1), ChatMessage("assistant", "c", 3)>>,
           <<ChatMessage("assistant", "b", 2)>>)
       = <<ChatMessage("assistant", "a", 1), ChatMessage("assistant", "b", 2),
           ChatMessage("assistant", "c", 3)>>

C8_Witness ==
    /\ disk # None /\ Len(disk[1].chat_history) = 3
    /\ disk[1].chat_history[1].role = "user"
    /\ disk[1].chat_history[2].role = "assistant"
    /\ disk[1].chat_history[3].role = "user"
    /\ Invoked /\ LastEv.hook_event_name \in {"Stop", "Notification"}
    /\ Len(pre[1].chat_history) = 2

\* ----- C9 ----------------------------------------------------------------
\* C9: when SessionEnd has been processed, every parent span id referenced
\* by an emitted tool, chat or subagent span is the span id of a turn or
\* subagent span emitted in the same trace.
C9_ParentsEmitted ==
    (Invoked /\ LastEv.hook_event_name = "SessionEnd") =>
        \A k \in DOMAIN log :
            (log[k].op = "span" /\ log[k].span[1].parent # None) =>
                \E m \in DOMAIN log :
                    /\ (IsSpan(log[m], "turn") \/ IsSpan(log[m], "subagent"))
                    /\ log[m].span[1].span_id = log[k].span[1].parent
                    /\ log[m].span[1].trace_id = log[k].span[1].trace_id

\* ----- C10 ---------------------------------------------------------------
\* C10 as claimed: every span emitted for the session id carries the same
\* trace id, for any sequence of events (stated of each span of the last
\* invocation and every span before it).
C10_Original ==
    \A i, j \in DOMAIN log :
        (i < j /\ log[j].at = LastAt /\ log[i].op = "span" /\ log[j].op = "span") =>
            log[i].span[1].trace_id = log[j].span[1].trace_id

\* C10 amended: the spans emitted between the creation of the session
\* record and its deletion carry the same trace id.
C10_OneTracePerRecord ==
    \A i, j \in DOMAIN log :
        (/\ i < j /\ log[j].at = LastAt /\ log[i].op = "span" /\ log[j].op = "span"
         /\ \A k \in i..j : log[k].op # "delete") =>
            log[i].span[1].trace_id = log[j].span[1].trace_id

C10_Witness ==
    \E i, j \in DOMAIN log :
        /\ i < j /\ IsSpan(log[i], "tool") /\ IsSpan(log[j], "turn")
        /\ log[i].at < log[j].at
        /\ \A k \in i..j : log[k].op # "delete"
        /\ log[i].span[1].trace_id = log[j].span[1].trace_id
        /\ nextId > log[i].span[1].trace_id + 1

\* ----- C11 ---------------------------------------------------------------
\* C11: an invocation that finds the session idle leaves an episode active
\* exactly when its event is UserPromptSubmit, PreToolUse, PostToolUse or
\* Notification; the new episode starts now, and its prompt text is the
\* submitted prompt for UserPromptSubmit and "(resumed session)" otherwise.
C11_IdleToActive ==
    (Invoked /\ EpisodeOf(pre) = None) =>
        /\ (EpisodeOf(disk) # None) <=>
               LastEv.hook_event_name \in
                   {"UserPromptSubmit", "PreToolUse", "PostToolUse", "Notification"}
        /\ EpisodeOf(disk) # None =>
               /\ EpisodeOf(disk)[1].start_ns = LastAt
               /\ EpisodeOf(disk)[1].prompt_text =
                      IF LastEv.hook_event_name = "UserPromptSubmit"
                      THEN LastEv.prompt ELSE "(resumed session)"

C11_Witness ==
    /\ Invoked /\ Len(hist) >= 3
    /\ IsEv(Last - 1, "Stop") /\ IsEv(Last, "PostToolUse")
    /\ pre # None /\ EpisodeOf(pre) = None
    /\ EpisodeOf(disk) # None
    /\ EpisodeOf(disk)[1].prompt_text = "(resumed session)"
    /\ EpisodeOf(disk)[1].start_ns = LastAt

\* ----- C12 ---------------------------------------------------------------
\* the prompt most recently submitted to the episode that is active before
\* the last invocation, "(resumed session)" if none was
CurrentPrompt ==
    LET ups == {j \in 1..(Last - 1) :
                   /\ IsEv(j, "UserPromptSubmit")
                   /\ \A m \in (j + 1)..(Last - 1) :
                         ~IsEv(m, "UserPromptSubmit") /\ ~IsEv(m, "Stop")
                         /\ ~IsEv(m, "SessionEnd")}
    IN IF ups = {} THEN "(resumed session)" ELSE hist[CHOOSE j \in ups : TRUE].e.prompt

\* name is text cut to at most 50 characters, line breaks made spaces
NamedFrom(name, text) ==
    LET spaced(c) == IF c = "\n" THEN " " ELSE c
        kept == Len(name) - Len(TruncatedSuffix)
    IN /\ Len(name) <= 50
       /\ IF Len(text) <= 50
          THEN name = [i \in DOMAIN text |-> spaced(text[i])]
          ELSE /\ kept >= 0
               /\ SubSeq(name, kept + 1, Len(name)) = TruncatedSuffix
               /\ \A i \in 1..kept : name[i] = spaced(text[i])

SubagentsOf(record) == IF record = None THEN <<>> ELSE record[1].subagents
\* the uuids the record holds and the ids of the spans emitted up to time t
IdsUpTo(record, t) ==
    (IF record = None THEN {}
     ELSE {record[1].trace_id}
          \cup {record[1].episode[i].span_id : i \in DOMAIN record[1].episode}
          \cup {record[1].subagents[i].span_id : i \in DOMAIN record[1].subagents})
    \cup {log[k].span[1].span_id[1] :
             k \in {j \in DOMAIN log : /\ log[j].op = "span" /\ log[j].at <= t
                                       /\ log[j].span[1].span_id # None}}

\* C13: a SubagentStart for a registered id leaves the registry as it was;
\* for an unregistered id it registers the id with a fresh span id, start
\* time now, an empty cache, and as parent the span id of the episode
\* active at that moment, or none when idle.
C13_SubagentStartOnce ==
    (Invoked /\ LastEv.hook_event_name = "SubagentStart") =>
        /\ disk # None
        /\ IF HasAgent(SubagentsOf(pre), LastEv.agent_id)
           THEN SubagentsOf(disk) = SubagentsOf(pre)
           ELSE /\ Len(SubagentsOf(disk)) = Len(SubagentsOf(pre)) + 1
                /\ SubSeq(SubagentsOf(disk), 1, Len(SubagentsOf(pre))) = SubagentsOf(pre)
                /\ LET new == SubagentsOf(disk)[Len(SubagentsOf(disk))]
                   IN /\ new.agent_id = LastEv.agent_id
                      /\ new.start_time_ns = LastAt
                      /\ new.span_id \notin IdsUpTo(pre, LastAt)
                      /\ new.span_id # disk[1].trace_id
                      /\ new.transcript_state = EmptyTranscriptState
                      /\ new.parent_span_id =
                             IF EpisodeOf(pre) # None
                             THEN Some(EpisodeOf(pre)[1].span_id) ELSE None

\* a second start for a subagent whose cache has been filled
C13_Witness ==
    /\ Invoked /\ LastEv.hook_event_name = "SubagentStart"
    /\ HasAgent(SubagentsOf(pre), LastEv.agent_id)
    /\ GetAgent(SubagentsOf(pre), LastEv.agent_id).transcript_state # EmptyTranscriptState
    /\ GetAgent(SubagentsOf(pre), LastEv.agent_id).start_time_ns < LastAt
    /\ SubagentsOf(disk) = SubagentsOf(pre)

Keeps(before, after) ==
    /\ \A k \in DOMAIN before.tool_parents :
          k \in DOMAIN after.tool_parents /\ after.tool_parents[k] = before.tool_parents[k]
    /\ \A k \in DOMAIN before.agent_parents :
          k \in DOMAIN after.agent_parents /\ after.agent_parents[k] = before.agent_parents[k]

\* the first record of T that names tool-use id k in a tool_use block, and
\* the first progress record of T that names subagent a
FirstToolRecord(T, k) ==
    LET idx == {i \in DOMAIN T : /\ T[i].type = "assistant" /\ T[i].agentId # NoneStr
                                 /\ \E b \in DOMAIN T[i].content :
                                       T[i].content[b].type = "tool_use" /\ T[i].content[b].id = k}
    IN IF idx = {} THEN 0 ELSE CHOOSE i \in idx : \A j \in idx : i <= j
FirstProgressRecord(T, a) ==
    LET idx == {i \in DOMAIN T : /\ T[i].type = "progress" /\ T[i].dataAgentId = a
                                 /\ T[i].parentToolUseID # NoneStr}
    IN IF idx = {} THEN 0 ELSE CHOOSE i \in idx : \A j \in idx : i <= j

FirstRecordWins(T) ==
    LET scanned == update_transcript(EmptyTranscriptState, Some(T))
    IN /\ \A k \in {"t1", "t2"} :
             IF FirstToolRecord(T, k) = 0 THEN k \notin DOMAIN scanned.tool_parents
             ELSE /\ k \in DOMAIN scanned.tool_parents
                  /\ scanned.tool_parents[k] = AgentParent(T[FirstToolRecord(T, k)].agentId)
       /\ \A a \in {"a1", "a2"} :
             IF FirstProgressRecord(T, a) = 0 THEN a \notin DOMAIN scanned.agent_parents
             ELSE /\ a \in DOMAIN scanned.agent_parents
                  /\ scanned.agent_parents[a] =
                         ToolParent(T[FirstProgressRecord(T, a)].parentToolUseID)

\* C15: in any sequence of scans over any transcripts, a scan keeps every
\* mapping the cache already holds, and within one scan the first record
\* that names a key determines its value.
C15_FirstWriteWins ==
    /\ [][Keeps(call.cache, call.cache')]_vars
    /\ [](FirstRecordWins(call.transcript))

\* the cache holds a parent for t1 and for a1, and the transcript to scan
\* next names another parent for each first
C15_Witness ==
    /\ "t1" \in DOMAIN call.cache.tool_parents
    /\ call.cache.tool_parents["t1"] = AgentParent("a1")
    /\ "a1" \in DOMAIN call.cache.agent_parents
    /\ call.cache.agent_parents["a1"] = ToolParent("t2")
    /\ call.transcript = <<AssistantEntry("a2", 0, <<ToolUseBlock("t1")>>),
                           ProgressEntry("t1", "a1")>>

\* ----- C16 ---------------------------------------------------------------
\* C16: a completed tool's span is always emitted; it is parented to a
\* subagent's span only when the resolved parent is AgentParent of a
\* subagent registered at that moment, and to the default parent (the
\* active episode's span, or none) in every other case: no known parent,
\* ToolParent, AgentParent of an unregistered subagent.
C16_ToolSpanParent ==
    (Invoked /\ LastEv.hook_event_name = "PostToolUse" /\ LastEv.tool_use_id # NoneStr) =>
        /\ ~hist[Last].raised
        /\ disk # None
        /\ Cardinality(SpanIdx(Out, "tool")) = 1
        /\ Cardinality(OpIdx(Out, "resolve")) = 1
        /\ \A i \in SpanIdx(Out, "tool") : \A r \in OpIdx(Out, "resolve") :
              LET found == Out[r].res.result
                  registered == {a \in DOMAIN SubagentsOf(disk) :
                                    /\ found # None /\ found[1].type = "agent"
                                    /\ SubagentsOf(disk)[a].agent_id = found[1].id}
                  default == IF EpisodeOf(disk) # None
                             THEN Some(EpisodeOf(disk)[1].span_id) ELSE None
              IN Out[i].span[1].parent =
                    IF registered # {}
                    THEN Some(SubagentsOf(disk)[CHOOSE a \in registered : TRUE].span_id)
                    ELSE default

\* the resolved parent is an agent that is not registered, while another
\* subagent is: the span goes to the episode
C16_Witness ==
    /\ Invoked /\ LastEv.hook_event_name = "PostToolUse" /\ LastEv.tool_use_id = "t1"
    /\ SubagentsOf(disk) # <<>>
    /\ \E i \in SpanIdx(Out, "tool") : \E r \in OpIdx(Out, "resolve") :
          /\ Out[r].res.result = Some(AgentParent("a2"))
          /\ Out[i].span[1].parent = Some(EpisodeOf(disk)[1].span_id)

\* ----- C17 ---------------------------------------------------------------
EndsWith(value, suffix) ==
    /\ Len(value) >= Len(suffix)
    /\ SubSeq(value, Len(value) - Len(suffix) + 1, Len(value)) = suffix

\* C17: truncate(value, 50) returns value unchanged when its length is at
\* most 50, and for a value of 80 characters a string of exactly 50
\* characters that ends with "...[truncated]"; the result never has more
\* than max_length characters.
C17_Truncate ==
    call.done =>
        /\ (call.max_length = 50 /\ Len(call.value) <= 50) => call.result = call.value
        /\ (call.max_length = 50 /\ Len(call.value) = 80) =>
               Len(call.result) = 50 /\ EndsWith(call.result, TruncatedSuffix)
        /\ Len(call.result) <= call.max_length

\* ----- C18 ---------------------------------------------------------------
\* the last step was an invocation
JustInvoked == Invoked /\ LastAt = now - 1
WellFormed(e) == ~(e.hook_event_name = "UserPromptSubmit" /\ e.prompt = NoneStr)

\* C18: an invocation that finds a corrupted record does not fail; it
\* leaves what the same event leaves when no record exists: a record
\* written from a fresh session state (new trace id, nothing else carried
\* over) in place of the corrupted one.
C18_CorruptedStartsFresh ==
    (JustInvoked /\ IsCorrupted(pre) /\ WellFormed(LastEv)) =>
        /\ ~hist[Last].raised
        /\ ~IsCorrupted(disk)
        /\ \E n \in 1..nextId :
              /\ disk = main(None, LastEv, n, LastAt, MainFile, SubFiles).record
              /\ \A k \in DOMAIN log :
                    (log[k].op = "span" /\ log[k].at < LastAt) => log[k].span[1].trace_id # n

\* ----- C19 ---------------------------------------------------------------
\* C19: a UserPromptSubmit without prompt aborts the processing of the event
\* before any state change: the invocation raises, emits no span, writes
\* nothing, and the persisted record is exactly what it was.
C19_NoPromptAborts ==
    (JustInvoked /\ ~WellFormed(LastEv)) =>
        /\ hist[Last].raised
        /\ Out = <<>>
        /\ disk = pre

\* the event arrives while an episode with a chat history is active
C19_Witness ==
    /\ JustInvoked /\ ~WellFormed(LastEv)
    /\ pre # None /\ ~IsCorrupted(pre)
    /\ EpisodeOf(pre) # None /\ EpisodeOf(pre)[1].prompt_text = "B"
    /\ Len(pre[1].chat_history) = 2
    /\ hist[Last].raised
    /\ disk = pre

\* ----- C21 ---------------------------------------------------------------
\* the invocations finished so far, in the order they saved
Done == call.done
LastDone == Done[Len(Done)]
PrevDone == Done[Len(Done) - 1]
\* the last two invocations to finish had both read the record before
\* either wrote it
Overlapped ==
    /\ Len(Done) >= 2
    /\ LastDone.at = now - 1
    /\ LastDone.loaded_at <= PrevDone.at
    /\ ~hist[Last].raised /\ ~hist[Last - 1].raised

\* C21: no lock serializes the invocations of a session id: when two
\* invocations both read the record before either saves, the record left
\* is the one the later save writes from the state it had read, and the
\* pending tool start, subagent registration or episode start that the
\* other invocation saved is lost.
C21_LastSaveWins ==
    Overlapped =>
        /\ disk = Handle(None, [s |-> LastDone.s, n |-> LastDone.n], LastDone.e,
                         LastDone.at, MainFile, SubFiles).record
        /\ (PrevDone.e.hook_event_name = "PreToolUse"
            /\ LastDone.e.hook_event_name \in {"Stop", "SubagentStart", "UserPromptSubmit"})
           => PendingOf(disk) = LastDone.s.pending_tools_start_time
        /\ (PrevDone.e.hook_event_name = "SubagentStart"
            /\ LastDone.e.hook_event_name \in {"Stop", "PreToolUse", "UserPromptSubmit"})
           => SubagentsOf(disk) = LastDone.s.subagents
        /\ (PrevDone.e.hook_event_name = "UserPromptSubmit"
            /\ LastDone.e.hook_event_name = "SubagentStart")
           => EpisodeOf(disk) = LastDone.s.episode

\* a PreToolUse and a SubagentStart read the same record of an idle
\* session; the PreToolUse saves its pending start, then the SubagentStart
\* saves: the pending start is gone
C21_Witness ==
    /\ Overlapped
    /\ PrevDone.e.hook_event_name = "PreToolUse"
    /\ LastDone.e.hook_event_name = "SubagentStart"
    /\ PrevDone.s = LastDone.s
    /\ "t1" \in DOMAIN PendingOf(pre)
    /\ EpisodeOf(pre) # None
    /\ disk # None /\ PendingOf(disk) = EmptyMap /\ EpisodeOf(disk) = None
    /\ Len(SubagentsOf(disk)) = 1

\* ----- C22 ---------------------------------------------------------------
\* the state an invocation starts from: the record, or a fresh state
ChatOfRecord(record) == IF LoadState(record) = None THEN <<>> ELSE record[1].chat_history
CachesOf(record) ==
    IF LoadState(record) = None THEN EmptyTranscriptState ELSE record[1].transcript_state

\* C22: a PostToolUse event without tool-use id is discarded: it emits no
\* span and resolves no parent, and it leaves the pending-tool map, the
\* subagent registry, the chat history and the parent caches as they were,
\* whatever its tool name and whatever is pending.
C22_NoIdDiscarded ==
    (JustInvoked /\ LastEv.hook_event_name = "PostToolUse" /\ LastEv.tool_use_id = NoneStr) =>
        /\ OpIdx(Out, "span") = {}
        /\ OpIdx(Out, "resolve") = {}
        /\ disk # None
        /\ PendingOf(disk) = PendingOf(pre)
        /\ SubagentsOf(disk) = SubagentsOf(pre)
        /\ ChatOfRecord(disk) = ChatOfRecord(pre)
        /\ CachesOf(disk) = CachesOf(pre)

\* a start is pending under the tool name the event carries, and the main
\* cache knows a parent
C22_Witness ==
    /\ JustInvoked /\ LastEv.hook_event_name = "PostToolUse" /\ LastEv.tool_use_id = NoneStr
    /\ LastEv.tool_name = "Bash"
    /\ "Bash" \in DOMAIN PendingOf(pre)
    /\ "t1" \in DOMAIN CachesOf(pre).tool_parents
    /\ disk = pre

\* ----- C23 ---------------------------------------------------------------
\* the last step was an invocation that found the main transcript unreadable
UnreadableInvoked == JustInvoked /\ IsUnreadable(mainT)
TurnSpans == SpanIdx(Out, "turn")
ToolSpans == SpanIdx(Out, "tool")
SavedLast == Out # <<>> /\ Out[Len(Out)].op = "save"
InSomeCache(record, tool_use_id) ==
    \/ tool_use_id \in DOMAIN CachesOf(record).tool_parents
    \/ CachedInSubagents(SubagentsOf(record), tool_use_id) # {}
SubagentReadable == \E a \in AgentIds : ~IsUnreadable(subT[a])

\* C23 as claimed: with an unreadable transcript nothing fails; Stop ends
\* the active episode and emits its turn span with the chat history
\* unchanged; PostToolUse emits the tool span with the default parent and
\* leaves every parent cache unchanged; Notification changes nothing and
\* saves.
C23_Original ==
    UnreadableInvoked =>
        /\ ~hist[Last].raised
        /\ (LastEv.hook_event_name = "Stop" /\ EpisodeOf(pre) # None) =>
              /\ EpisodeOf(disk) = None
              /\ Cardinality(TurnSpans) = 1
              /\ ChatOfRecord(disk) = ChatOfRecord(pre)
        /\ (LastEv.hook_event_name = "PostToolUse" /\ LastEv.tool_use_id # NoneStr) =>
              /\ Cardinality(ToolSpans) = 1
              /\ \A k \in ToolSpans : Out[k].span[1].parent = DefaultParent(disk[1])
              /\ CachesOf(disk) = CachesOf(pre)
              /\ SubagentsOf(disk) = SubagentsOf(pre)
        /\ LastEv.hook_event_name = "Notification" =>
              /\ SavedLast
              /\ OpIdx(Out, "span") = {}
              /\ EpisodeOf(disk) = EpisodeOf(pre)
              /\ ChatOfRecord(disk) = ChatOfRecord(pre)
              /\ PendingOf(disk) = PendingOf(pre)
              /\ SubagentsOf(disk) = SubagentsOf(pre)
              /\ CachesOf(disk) = CachesOf(pre)

\* C23 amended: with an unreadable main transcript nothing fails.  Stop
\* ends the active episode and emits its turn span, with no chat span and
\* the chat history unchanged.  PostToolUse emits the tool span and leaves
\* the main cache unchanged; the parent is the default one and every cache
\* is unchanged when no cache holds the tool-use id and no subagent's
\* transcript is readable, and otherwise the parent is the default one or
\* the span of a registered subagent.  Notification emits nothing, saves,
\* and changes nothing but the episode, which it starts when the session
\* is idle.
C23_UnreadableIsNoData ==
    UnreadableInvoked =>
        /\ ~hist[Last].raised
        /\ (LastEv.hook_event_name = "Stop" /\ EpisodeOf(pre) # None) =>
              /\ EpisodeOf(disk) = None
              /\ Cardinality(TurnSpans) = 1
              /\ SpanIdx(Out, "chat") = {}
              /\ ChatOfRecord(disk) = ChatOfRecord(pre)
              /\ SavedLast
        /\ (LastEv.hook_event_name = "PostToolUse" /\ LastEv.tool_use_id # NoneStr) =>
              /\ Cardinality(ToolSpans) = 1
              /\ SavedLast
              /\ CachesOf(disk) = CachesOf(pre)
              /\ \A k \in ToolSpans :
                    \/ Out[k].span[1].parent = DefaultParent(disk[1])
                    \/ \E i \in DOMAIN SubagentsOf(disk) :
                          Out[k].span[1].parent = Some(SubagentsOf(disk)[i].span_id)
              /\ (~InSomeCache(pre, LastEv.tool_use_id) /\ ~SubagentReadable) =>
                    /\ \A k \in ToolSpans : Out[k].span[1].parent = DefaultParent(disk[1])
                    /\ SubagentsOf(disk) = SubagentsOf(pre)
        /\ LastEv.hook_event_name = "Notification" =>
              /\ SavedLast
              /\ OpIdx(Out, "span") = {}
              /\ EpisodeOf(pre) # None => EpisodeOf(disk) = EpisodeOf(pre)
              /\ EpisodeOf(pre) = None =>
                    /\ EpisodeOf(disk) # None
                    /\ EpisodeOf(disk)[1].prompt_text = "(resumed session)"
              /\ ChatOfRecord(disk) = ChatOfRecord(pre)
              /\ PendingOf(disk) = PendingOf(pre)
              /\ SubagentsOf(disk) = SubagentsOf(pre)
              /\ CachesOf(disk) = CachesOf(pre)

\* a PostToolUse finds the main transcript unreadable and the tool_use
\* record in the transcript of a registered subagent
C23_Witness ==
    /\ UnreadableInvoked
    /\ LastEv.hook_event_name = "PostToolUse" /\ LastEv.tool_use_id = "t1"
    /\ SubagentReadable
    /\ Len(SubagentsOf(disk)) = 1
    /\ ToolSpans # {}
    /\ \A k \in ToolSpans : Out[k].span[1].parent = Some(SubagentsOf(disk)[1].span_id)
    /\ SubagentsOf(disk) # SubagentsOf(pre)

\* ----- C24 ---------------------------------------------------------------
\* the blocks of X's tool_use, the tool_use before it, and the thinking
\* blocks between the two
UsesOf(content, X) ==
    {k \in DOMAIN content : content[k].type = "tool_use" /\ content[k].id = X}
Max(S) == CHOOSE x \in S : \A y \in S : y <= x
ToolUseBefore(content, k) ==
    Max({0} \cup {j \in 1..(k - 1) : content[j].type = "tool_use"})
ThinkingBetween(content, p, k) ==
    {j \in (p + 1)..(k - 1) : content[j].type = "thinking"}
ReasoningOf(content, X) ==
    IF UsesOf(content, X) = {} THEN NoneStr
    ELSE LET k == Min(UsesOf(content, X))
             th == ThinkingBetween(content, ToolUseBefore(content, k), k)
         IN IF th = {} THEN NoneStr ELSE content[Max(th)].thinking

\* C24: the reasoning of tool-use id X is the last thinking block between
\* the tool_use block before X's tool_use block (or the start of the
\* stream) and X's tool_use block; there is none when no thinking block
\* lies between the two or when X is not in the stream.
C24_ThinkForTool ==
    call.done => call.result = ReasoningOf(call.content, call.tool_use_id)

\* two thinking blocks and another tool's tool_use before X's
C24_Witness ==
    /\ call.done
    /\ call.tool_use_id = "t1"
    /\ call.content = <<ThinkingBlock("T1"), ToolUseBlock("t2"), ThinkingBlock("T2"),
                        ToolUseBlock("t1")>>
    /\ call.result = "T2"

\* ----- C25 ---------------------------------------------------------------
\* C25: an invocation that processes SessionEnd ends with the deletion of
\* the record and no save follows, so that no record exists afterwards;
\* an invocation that processes any other event ends with a save of the
\* state and deletes nothing.
C25_DeletedAtSessionEnd ==
    (JustInvoked /\ ~hist[Last].raised) =>
        IF LastEv.hook_event_name = "SessionEnd"
        THEN /\ disk = None
             /\ OpIdx(Out, "save") = {}
             /\ OpIdx(Out, "delete") = {Len(Out)}
        ELSE /\ disk # None
             /\ OpIdx(Out, "delete") = {}
             /\ OpIdx(Out, "save") = {Len(Out)}

\* the session ends with an episode active, a tool start pending and a
\* subagent registered
C25_Witness ==
    /\ JustInvoked /\ LastEv.hook_event_name = "SessionEnd"
    /\ EpisodeOf(pre) # None
    /\ PendingOf(pre) # EmptyMap
    /\ SubagentsOf(pre) # <<>>
    /\ SpanIdx(Out, "turn") # {}
    /\ disk = None

\* ----- C26 ---------------------------------------------------------------
\* the (text, timestamp) pairs of the assistant messages of a list
AssistantPairs(chat) ==
    {<<chat[i].message, chat[i].timestamp>> :
        i \in {j \in DOMAIN chat : chat[j].role = "assistant"}}
NoAssistantTwice(chat) ==
    \A i, j \in DOMAIN chat :
        (i < j /\ chat[i].role = "assistant" /\ chat[j].role = "assistant") =>
            <<chat[i].message, chat[i].timestamp>> # <<chat[j].message, chat[j].timestamp>>
\* extracted batches of at most two assistant messages, with repeats and
\* with the texts and stamps of the user's prompts
SampleMessages == {ChatMessage("assistant", m, ts) : m \in Prompts, ts \in 0..2}
SampleChats ==
    {<<m>> : m \in SampleMessages} \cup {<<m, q>> : m \in SampleMessages, q \in SampleMessages}

\* C26: the chat history never holds two assistant messages with the same
\* (text, timestamp) pair; of an extracted batch, deduplication keeps each
\* pair that no assistant message of the history has, once, and rejects
\* the others; a message of another role with the same pair does not count.
C26_NoAssistantTwice ==
    disk # None =>
        /\ NoAssistantTwice(disk[1].chat_history)
        /\ \A chat \in SampleChats :
              LET new == check_new_assistant_messages(disk[1].chat_history, chat)
              IN /\ NoAssistantTwice(new)
                 /\ AssistantPairs(new)
                      = AssistantPairs(chat) \ AssistantPairs(disk[1].chat_history)
                 /\ Len(new) = Cardinality(AssistantPairs(new))

\* the history holds the user's prompt and an assistant message of the
\* same text and timestamp, and the transcript was read again since
C26_Witness ==
    /\ JustInvoked /\ Len(hist) >= 2
    /\ LastEv.hook_event_name = "Notification"
    /\ hist[Last - 1].e.hook_event_name = "Notification"
    /\ disk # None /\ Len(disk[1].chat_history) = 2
    /\ disk[1].chat_history[1].role = "user"
    /\ disk[1].chat_history[2].role = "assistant"
    /\ Key(disk[1].chat_history[1]) = Key(disk[1].chat_history[2])
    /\ disk = pre
    /\ extract_chat_from_transcript(MainFile) # None

\* ----- C27 ---------------------------------------------------------------
\* the key of a tool-select event
SelectKey(e) ==
    CASE e.tool_use_id # NoneStr -> e.tool_use_id
      [] e.tool_use_id = NoneStr /\ e.tool_name # NoneStr -> e.tool_name
      [] OTHER -> "unknown"

\* C27: a PreToolUse event records the clock value under the tool-use id
\* if the event has one, else under the tool name, else under "unknown",
\* in place of any earlier entry of that key; the other pending entries
\* stay as they were and no span is emitted.
C27_SelectRecordsNow ==
    (JustInvoked /\ LastEv.hook_event_name = "PreToolUse") =>
        /\ disk # None
        /\ DOMAIN PendingOf(disk) = DOMAIN PendingOf(pre) \cup {SelectKey(LastEv)}
        /\ PendingOf(disk)[SelectKey(LastEv)] = LastAt
        /\ \A k \in DOMAIN PendingOf(pre) :
              k # SelectKey(LastEv) => PendingOf(disk)[k] = PendingOf(pre)[k]
        /\ OpIdx(Out, "span") = {}

\* a second select of tool-use id t1 while a start is also pending under
\* a tool name
C27_Witness ==
    /\ JustInvoked /\ LastEv.hook_event_name = "PreToolUse" /\ LastEv.tool_use_id = "t1"
    /\ DOMAIN PendingOf(pre) = {"t1", "Bash"}
    /\ PendingOf(pre)["t1"] < LastAt
    /\ PendingOf(disk)["t1"] = LastAt
    /\ PendingOf(disk)["Bash"] = PendingOf(pre)["Bash"]

\* ----- C28 ---------------------------------------------------------------
\* where the i-th old and the j-th new message belong in the merged list:
\* after the messages of their own list before them, after the new
\* messages that are strictly earlier, after the old ones that are not later
PlaceOfOld(old, new, i) ==
    i + Cardinality({j \in DOMAIN new : new[j].timestamp < old[i].timestamp})
PlaceOfNew(old, new, j) ==
    j + Cardinality({i \in DOMAIN old : old[i].timestamp <= new[j].timestamp})
MergedExactly(old, new, merged) ==
    /\ Len(merged) = Len(old) + Len(new)
    /\ \A i \in DOMAIN old : merged[PlaceOfOld(old, new, i)] = old[i]
    /\ \A j \in DOMAIN new : merged[PlaceOfNew(old, new, j)] = new[j]
    /\ {PlaceOfOld(old, new, i) : i \in DOMAIN old}
         \cup {PlaceOfNew(old, new, j) : j \in DOMAIN new} = DOMAIN merged
    /\ \A i, k \in DOMAIN old : i < k => PlaceOfOld(old, new, i) < PlaceOfOld(old, new, k)
    /\ \A j, k \in DOMAIN new : j < k => PlaceOfNew(old, new, j) < PlaceOfNew(old, new, k)
    /\ \A i \in DOMAIN old : \A j \in DOMAIN new :
          old[i].timestamp = new[j].timestamp
              => PlaceOfOld(old, new, i) < PlaceOfNew(old, new, j)

\* C28: merging new messages into the history loses and invents nothing:
\* the merged list has the old and the new messages, each once (its
\* length is the sum), the old messages in their order and the new ones in
\* theirs, and an old message before a new one of the same timestamp.
C28_MergeExact ==
    disk # None =>
        \A chat \in SampleChats :
            MergedExactly(disk[1].chat_history,
                          check_new_assistant_messages(disk[1].chat_history, chat),
                          add_new_assistant_messages(
                              disk[1].chat_history,
                              check_new_assistant_messages(disk[1].chat_history, chat)))

\* the last invocation merged an assistant message with the timestamp of
\* the user's message
C28_Witness ==
    /\ JustInvoked /\ LastEv.hook_event_name \in {"Notification", "Stop"}
    /\ pre # None /\ Len(pre[1].chat_history) = 1
    /\ disk # None /\ Len(disk[1].chat_history) = 2
    /\ disk[1].chat_history[1] = pre[1].chat_history[1]
    /\ disk[1].chat_history[2].role = "assistant"
    /\ disk[1].chat_history[2].timestamp = disk[1].chat_history[1].timestamp

\* ----- C29 ---------------------------------------------------------------
\* the state the last invocation started from
StateBefore == IF LoadState(pre) = None THEN start_session(disk[1].trace_id) ELSE pre[1]
\* the (text, timestamp) pairs of the text blocks of the main transcript
TranscriptPairs ==
    UNION {{<<mainT[i].content[k].text, mainT[i].timestamp>> :
               k \in {n \in DOMAIN mainT[i].content : mainT[i].content[n].type = "text"}} :
           i \in {j \in DOMAIN mainT : mainT[j].type = "assistant" /\ mainT[j].timestamp # NoTime}}

\* C29: a Stop processed while no episode is active emits no span and
\* leaves the session idle; it changes nothing of the state but the chat
\* history, which keeps its messages in their order and gains the
\* assistant messages of the transcript it did not have.
C29_IdleStop ==
    (JustInvoked /\ LastEv.hook_event_name = "Stop" /\ EpisodeOf(pre) = None) =>
        /\ OpIdx(Out, "span") = {}
        /\ disk # None
        /\ EpisodeOf(disk) = None
        /\ disk[1] = [StateBefore EXCEPT !.chat_history = disk[1].chat_history]
        /\ SelectSeq(disk[1].chat_history,
                     LAMBDA m : m \in {StateBefore.chat_history[i] :
                                          i \in DOMAIN StateBefore.chat_history})
              = StateBefore.chat_history
        /\ AssistantPairs(disk[1].chat_history)
              = AssistantPairs(StateBefore.chat_history) \cup TranscriptPairs
        /\ Len(disk[1].chat_history)
              = Len(StateBefore.chat_history)
                + Cardinality(TranscriptPairs \ AssistantPairs(StateBefore.chat_history))

\* the assistant's text reached the transcript after the turn had ended
C29_Witness ==
    /\ JustInvoked /\ LastEv.hook_event_name = "Stop"
    /\ pre # None /\ EpisodeOf(pre) = None
    /\ Len(pre[1].chat_history) = 1
    /\ Len(disk[1].chat_history) = 2
    /\ Out = <<[at |-> LastAt, op |-> "save", span |-> None, res |-> NoRes]>>

\* ----- C30 ---------------------------------------------------------------
\* C30: every tool span has a parent: the invocation that emits it leaves
\* an episode active (a PostToolUse that finds the session idle starts a
\* "(resumed session)" episode first), and the parent is the span of that
\* episode or of a registered subagent.
C30_ToolSpanHasParent ==
    /\ \A k \in DOMAIN log : IsSpan(log[k], "tool") => log[k].span[1].parent # None
    /\ (JustInvoked /\ SpanIdx(Out, "tool") # {}) =>
          /\ LastEv.hook_event_name = "PostToolUse"
          /\ EpisodeOf(disk) # None
          /\ EpisodeOf(pre) = None => EpisodeOf(disk)[1].prompt_text = "(resumed session)"
          /\ EpisodeOf(pre) # None => EpisodeOf(disk) = EpisodeOf(pre)
          /\ \A k \in SpanIdx(Out, "tool") :
                \/ Out[k].span[1].parent = Some(EpisodeOf(disk)[1].span_id)
                \/ \E i \in DOMAIN SubagentsOf(disk) :
                      Out[k].span[1].parent = Some(SubagentsOf(disk)[i].span_id)

\* a PostToolUse arrives after the turn has ended
C30_Witness ==
    /\ JustInvoked /\ LastEv.hook_event_name = "PostToolUse"
    /\ pre # None /\ EpisodeOf(pre) = None
    /\ Len(hist) >= 2 /\ hist[Last - 1].e.hook_event_name = "Stop"
    /\ SpanIdx(Out, "tool") # {}
    /\ \A k \in SpanIdx(Out, "tool") :
          Out[k].span[1].parent = Some(EpisodeOf(disk)[1].span_id)

\* ----- C31 ---------------------------------------------------------------
ValuesOf(f) == {f[k] : k \in DOMAIN f}
TypesOk(transcript_state) ==
    /\ \A v \in ValuesOf(transcript_state.tool_parents) : v.type = "agent"
    /\ \A v \in ValuesOf(transcript_state.agent_parents) : v.type = "tool"
\* the session state with every agent->parent cache emptied
ClearAgentParents(s) ==
    [s EXCEPT !.transcript_state.agent_parents = EmptyMap,
              !.subagents = [i \in DOMAIN @ |->
                                [@[i] EXCEPT !.transcript_state.agent_parents = EmptyMap]]]
\* resolving t from state s and from s without its agent->parent caches
\* gives the same result, the same span parent and the same tool->parent
\* caches
AgentParentsUnused(s, t) ==
    LET g == _guess_parent_agent_for_tool(s, t, MainFile, SubFiles)
        h == _guess_parent_agent_for_tool(ClearAgentParents(s), t, MainFile, SubFiles)
    IN /\ h.result = g.result
       /\ ToolSpanParent(h.s, h.result) = ToolSpanParent(g.s, g.result)
       /\ ClearAgentParents(h.s) = ClearAgentParents(g.s)

\* C31: every value of a tool->parent cache is an AgentParent and every
\* value of an agent->parent cache is a ToolParent; no resolution of a
\* tool-use id returns a ToolParent, and the resolution and the span's
\* parent do not depend on the agent->parent caches.
C31_CacheValueTypes ==
    /\ \A k \in DOMAIN log :
          (log[k].op = "resolve" /\ log[k].res.result # None) =>
              log[k].res.result[1].type = "agent"
    /\ disk # None =>
          /\ TypesOk(disk[1].transcript_state)
          /\ \A i \in DOMAIN disk[1].subagents : TypesOk(disk[1].subagents[i].transcript_state)
          /\ \A t \in ToolUseIds : AgentParentsUnused(disk[1], t)

\* both caches of the main transcript are filled and the last resolution
\* returned an AgentParent
C31_Witness ==
    /\ JustInvoked /\ LastEv.hook_event_name = "PostToolUse"
    /\ disk # None
    /\ disk[1].transcript_state.agent_parents # EmptyMap
    /\ disk[1].transcript_state.tool_parents # EmptyMap
    /\ \E k \in OpIdx(Out, "resolve") : Out[k].res.result = Some(AgentParent("a1"))

\* ----- C32 ---------------------------------------------------------------
\* C32: a Stop that ends an episode changes the episode and the chat
\* history and nothing else, the pending-tool map and the subagent
\* registry in particular; so a later SubagentStop emits the subagent's
\* span under the parent recorded at its start, the ended episode's span
\* included, and a later PostToolUse starts its span at the pending start
\* recorded before the Stop.
C32_StopFrame ==
    /\ (JustInvoked /\ LastEv.hook_event_name = "Stop" /\ EpisodeOf(pre) # None) =>
          /\ disk # None
          /\ disk[1] = [pre[1] EXCEPT !.episode = None,
                                      !.chat_history = disk[1].chat_history]
    /\ (JustInvoked /\ LastEv.hook_event_name = "SubagentStop"
        /\ HasAgent(SubagentsOf(pre), LastEv.agent_id)) =>
          /\ Cardinality(SpanIdx(Out, "subagent")) = 1
          /\ \A k \in SpanIdx(Out, "subagent") :
                Out[k].span[1].parent
                   = GetAgent(SubagentsOf(pre), LastEv.agent_id).parent_span_id
    /\ (JustInvoked /\ LastEv.hook_event_name = "PostToolUse"
        /\ LastEv.tool_use_id \in DOMAIN PendingOf(pre)) =>
          /\ Cardinality(SpanIdx(Out, "tool")) = 1
          /\ \A k \in SpanIdx(Out, "tool") :
                Out[k].span[1].start = PendingOf(pre)[LastEv.tool_use_id]

\* a subagent started during a turn stops after the turn has ended: its
\* span is parented to the turn span the Stop emitted
C32_Witness ==
    /\ JustInvoked /\ LastEv.hook_event_name = "SubagentStop"
    /\ Len(hist) >= 2 /\ hist[Last - 1].e.hook_event_name = "Stop"
    /\ EpisodeOf(pre) = None
    /\ HasAgent(SubagentsOf(pre), LastEv.agent_id)
    /\ \E k \in SpanIdx(Out, "subagent") : \E m \in DOMAIN log :
          /\ IsSpan(log[m], "turn")
          /\ log[m].at = hist[Last - 1].at
          /\ Out[k].span[1].parent = log[m].span[1].span_id

\* ----- C33 ---------------------------------------------------------------
\* the keys pending before the last invocation and no longer after it
RemovedKeys == DOMAIN PendingOf(pre) \ DOMAIN PendingOf(disk)

\* C33: a pending entry leaves the persisted state only when a PostToolUse
\* carries its key as tool-use id or when SessionEnd deletes the record;
\* after any other event every pending entry is still there, with its
\* value unless a PreToolUse has just rewritten that key.  An entry under
\* a tool name or under "unknown" therefore stays until a PostToolUse
\* carries that string as tool-use id or the session ends.
C33_PendingRemoval ==
    JustInvoked =>
        /\ \A k \in RemovedKeys :
              \/ LastEv.hook_event_name = "PostToolUse" /\ LastEv.tool_use_id = k
              \/ LastEv.hook_event_name = "SessionEnd" /\ disk = None
        /\ \A k \in DOMAIN PendingOf(pre) \cap DOMAIN PendingOf(disk) :
              \/ PendingOf(disk)[k] = PendingOf(pre)[k]
              \/ LastEv.hook_event_name = "PreToolUse" /\ SelectKey(LastEv) = k
        /\ (LastEv.hook_event_name = "PostToolUse" /\ LastEv.tool_use_id # NoneStr) =>
              LastEv.tool_use_id \notin DOMAIN PendingOf(disk)
        /\ LastEv.hook_event_name = "SessionEnd" => PendingOf(disk) = EmptyMap

\* an entry under the tool name outlives a PostToolUse without tool-use
\* id and a Stop, and goes when a PostToolUse carries the name as id
C33_Witness ==
    /\ JustInvoked /\ Len(hist) = 4
    /\ hist[1].e.hook_event_name = "PreToolUse" /\ hist[1].e.tool_use_id = NoneStr
    /\ hist[2].e.hook_event_name = "PostToolUse" /\ hist[2].e.tool_use_id = NoneStr
    /\ hist[3].e.hook_event_name = "Stop"
    /\ LastEv.hook_event_name = "PostToolUse" /\ LastEv.tool_use_id = "Bash"
    /\ PendingOf(pre) = [k \in {"Bash"} |-> 0]
    /\ RemovedKeys = {"Bash"}

====
